---- MODULE Spec2Model ----
(***************************************************************************)
(* Model of the price resolution core of transparent-fund-sdk:             *)
(*   sdk/lib/numbers.py                      Number, LongShortNumbers      *)
(*   sdk/base/readers/structs.py             PositionsDict, PricedPosition *)
(*   sdk/base/readers/prices/lazy_resolver.py    LazyPriceResolver         *)
(*   sdk/base/readers/prices/chainlink/reader.py ChainlinkPriceReader      *)
(*   sdk/chains/bsc/readers/prices/pancakeswap/reader.py                   *)
(*   sdk/base/readers/holdings/reader.py     HoldingsReader                *)
(*   sdk/base/readers/aggregator/aggregator.py   BaseAggregator            *)
(*   sdk/lib/shortest_path_resolver.py       ShortestPathResolver          *)
(*                                                                         *)
(* The asyncio event loop is single threaded: every action below is one    *)
(* callback of the loop, run from one suspension point to the next.        *)
(* asyncio.wait_for is modelled as documented: on a timeout it cancels the  *)
(* awaited task and raises TimeoutError, and a cancellation takes effect   *)
(* at once.                                                                *)
(***************************************************************************)
EXTENDS Integers, Sequences, FiniteSets, TLC

\* ---------------------------------------------------------------- bounds
\* Number of protocol report readers registered on the aggregator.
NumProtocols == 1
\* Largest balance (in token units of the smallest decimal) a reader reports.
MaxAmount == 2
\* Largest absolute value and largest decimals of the Numbers the operations
\* of numbers.py are called on.
MaxValue == 12
MaxDecimals == 2
\* Largest absolute value of the Numbers set_decimals is called on: 5, 15 and
\* 25 are the ties of a rescaling by one decimal.
MaxScaled == 25
\* Number of nodes the edges given to ShortestPathResolver are drawn over.
NumNodes == 4

\* ------------------------------------------------------------- constants
\* asyncio.wait_for(self.tasks[symbol], 10)
TIMEOUT == 10
\* sdk/base/readers/constants.py is not part of the sources: both scales
\* are kept small so that every product stays inside TLC's integers.
POSITION_DECIMALS == 2
PRICE_DECIMALS == 2
\* `else 18`: the decimals of the chain's native coin, scaled like the above.
ETH_DECIMALS == 3

\* ------------------------------------------------------------ numbers.py
Num(v, d) == [value |-> v, decimals |-> d]

RECURSIVE Pow10(_)
Pow10(n) == IF n <= 0 THEN 1 ELSE 10 * Pow10(n - 1)

\* Python's int // int: floor division, for either sign of the divisor.
PyFloorDiv(a, b) == IF b > 0 THEN a \div b ELSE (0 - a) \div (0 - b)

\* (mutation) ties rounded up, as floor(x + 1/2) rounds them
PyRound_halfUp(v, ndigits) ==
    LET m == Pow10(0 - ndigits)
        q == v \div m
        r == v % m
    IN  IF 2 * r < m THEN q * m ELSE (q + 1) * m

\* Python's round(int, ndigits) for ndigits <= 0: the nearest multiple of
\* 10^(-ndigits), ties to the even multiple.
PyRound(v, ndigits) ==
    LET m == Pow10(0 - ndigits)
        q == v \div m
        r == v % m
    IN  IF 2 * r < m THEN q * m
        ELSE IF 2 * r > m THEN (q + 1) * m
        ELSE IF q % 2 = 0 THEN q * m ELSE (q + 1) * m

\* (mutation) set_decimals without its `self.decimals = target`
set_decimals_stale(n, target) ==
    IF n.decimals >= target
    THEN Num(PyFloorDiv(PyRound(n.value, target - n.decimals),
                        Pow10(n.decimals - target)), n.decimals)
    ELSE Num(n.value * Pow10(target - n.decimals), n.decimals)

\* Number.set_decimals
set_decimals(n, target) ==
    IF n.decimals >= target
    THEN Num(PyFloorDiv(PyRound(n.value, target - n.decimals),
                        Pow10(n.decimals - target)), target)
    ELSE Num(n.value * Pow10(target - n.decimals), target)

\* (mutation) the sum at the lower of the two decimals: the more precise
\* operand is scaled down
NumberAddRaw_scaleDown(n, value, decimals) ==
    IF n.decimals >= decimals
    THEN Num(PyFloorDiv(n.value, Pow10(n.decimals - decimals)) + value, decimals)
    ELSE Num(n.value + PyFloorDiv(value, Pow10(decimals - n.decimals)), n.decimals)

\* (mutation) the decimals of self are kept, as __mul__ keeps them: the
\* other value is scaled down when it is the more precise
NumberAddRaw_keepSelf(n, value, decimals) ==
    IF n.decimals >= decimals
    THEN Num(n.value + value * Pow10(n.decimals - decimals), n.decimals)
    ELSE Num(n.value + PyFloorDiv(value, Pow10(decimals - n.decimals)), n.decimals)

\* Number.__add (private helper of + and -)
NumberAddRaw(n, value, decimals) ==
    IF n.decimals >= decimals
    THEN Num(n.value + value * Pow10(n.decimals - decimals), n.decimals)
    ELSE Num(n.value * Pow10(decimals - n.decimals) + value, decimals)

NumberAdd(a, b) == NumberAddRaw(a, b.value, b.decimals)
NumberSub(a, b) == NumberAddRaw(a, 0 - b.value, b.decimals)

\* (mutation) the quotient truncated toward zero, as C's integer division
NumberMul_truncate(a, b) ==
    LET product == a.value * b.value
    IN  Num(IF product >= 0 THEN product \div Pow10(b.decimals)
            ELSE 0 - ((0 - product) \div Pow10(b.decimals)), a.decimals)

\* Number.__mul__ / __imul__
NumberMul(a, b) == Num(PyFloorDiv(a.value * b.value, Pow10(b.decimals)), a.decimals)

\* Number.__floordiv__; the caller checks b.value # 0 (ZeroDivisionError)
NumberFloorDiv(a, b) ==
    Num(PyFloorDiv(a.value * Pow10(b.decimals), b.value), a.decimals)

\* LongShortNumbers
LSN(n, l, s) == [net |-> n, long |-> l, short |-> s]
LSNZero == LSN(Num(0, 0), Num(0, 0), Num(0, 0))

LSNAdd(a, b) ==
    LSN(NumberAdd(a.net, b.net), NumberAdd(a.long, b.long), NumberAdd(a.short, b.short))

broadcast_mul(a, price) ==
    LSN(NumberMul(a.net, price), NumberMul(a.long, price), NumberMul(a.short, price))

\* ------------------------------------------------------------ structs.py
\* A PositionsDict is a function from the symbols it holds to their position.
EmptyDict == <<>>

PositionsGet(P, key) == IF key \in DOMAIN P THEN P[key] ELSE LSNZero

\* (mutation) dict.update: the other ledger's entry replaces the one held
PositionsIAdd_update(P, other) ==
    [k \in (DOMAIN P) \cup (DOMAIN other) |->
        IF k \in DOMAIN other THEN other[k] ELSE P[k]]

\* PositionsDict.__iadd__: self[symbol] = self.get(symbol) + amount
PositionsIAdd(P, other) ==
    [k \in (DOMAIN P) \cup (DOMAIN other) |->
        IF k \in DOMAIN other THEN LSNAdd(PositionsGet(P, k), other[k]) ELSE P[k]]

PricedPosition(a, v) == [amount |-> a, value |-> v]
PricedPositionZero == PricedPosition(LSNZero, LSNZero)

\* (mutation) the values are not added: the value of self is kept
PricedPositionAdd_amountOnly(a, b) ==
    PricedPosition(LSNAdd(a.amount, b.amount), a.value)

\* PricedPosition.__add__
PricedPositionAdd(a, b) ==
    PricedPosition(LSNAdd(a.amount, b.amount), LSNAdd(a.value, b.value))

PricedPositionsIAdd(P, other) ==
    [k \in (DOMAIN P) \cup (DOMAIN other) |->
        IF k \in DOMAIN other
        THEN PricedPositionAdd(IF k \in DOMAIN P THEN P[k] ELSE PricedPositionZero,
                               other[k])
        ELSE P[k]]

\* ------------------------------------------------------- configuration
\* The token symbols of config.tokens.  ETH is config.ETH: GenericChainConfig
\* maps it to the wrapped token's entry, so it is a token like any other.
Tokens == {"A", "B"}
ETH == "B"
\* A symbol that is not a key of config.tokens, so that no price reader is
\* recorded for it; a pricing strategy may quote it, a report may hold it.
Unlisted == "U"
Symbols == Tokens \cup {Unlisted}

\* The price readers BscAggregator registers, by id.
ReaderIds == {"chainlink", "pancakeswap"}

\* One token's entry of tokens.yaml: its decimals and its pricing strategy.
Token(dec, id, quote, index) ==
    [decimals |-> dec, pricing |-> [id |-> id, quote |-> quote, index |-> index]]

\* The configurations the model is checked on.
Configs ==
    { \* A priced on a pool quoting B, B priced by an oracle
      [A |-> Token(1, "pancakeswap", "B", 0), B |-> Token(3, "chainlink", "B", 0)],
      \* circular: A quotes B and B quotes A
      [A |-> Token(1, "pancakeswap", "B", 1), B |-> Token(3, "pancakeswap", "A", 0)],
      \* A quotes a symbol that is not a token
      [A |-> Token(1, "pancakeswap", "U", 0), B |-> Token(3, "chainlink", "B", 0)],
      \* a pricing id for which no price reader is registered
      [A |-> Token(1, "uniswap", "B", 0), B |-> Token(3, "chainlink", "B", 0)],
      \* both priced by an oracle, in a common quote
      [A |-> Token(1, "chainlink", "A", 0), B |-> Token(3, "chainlink", "B", 0)] }

\* BaseAggregator.__init__: self.price_readers[symbol] = price_readers[token.pricing.id]
\* raises KeyError when an id is not registered.
AggregatorInitOk(tokens) == \A s \in DOMAIN tokens : tokens[s].pricing.id \in ReaderIds

AggregatorPriceReaders(tokens) == [s \in DOMAIN tokens |-> tokens[s].pricing.id]

\* ------------------------------------------------------------ producers
\* Producer 0 is the holdings reader, 1..NumProtocols the protocol readers.
Holdings == 0
Protocols == 1..NumProtocols
Producers == {Holdings} \cup Protocols
\* convert_units_async gathers two resolve_price coroutines itself
Caller == NumProtocols + 1
Requesters == Producers \cup {Caller}

\* ----------------------------------------------- what the chain answers
\* HoldingsReader.__fetch_token_snapshot: an empty dict for a zero balance.
TokenSnapshot(tokens, symbol, balance_int) ==
    IF balance_int = 0 THEN EmptyDict
    ELSE LET balance == Num(balance_int, tokens[symbol].decimals)
         IN  symbol :> LSN(balance, balance, Num(0, 0))

\* HoldingsReader.__fetch_eth_snapshot: the native coin is always recorded.
EthSnapshot(wei) ==
    LET eth_value == set_decimals(Num(wei, ETH_DECIMALS), POSITION_DECIMALS)
    IN  ETH :> LSN(eth_value, eth_value, Num(0, 0))

\* HoldingsReader.get_positions: the token snapshots, then the native coin.
get_positions(tokens, balA, balB, wei) ==
    PositionsIAdd(
        PositionsIAdd(PositionsIAdd(EmptyDict, TokenSnapshot(tokens, "A", balA)),
                      TokenSnapshot(tokens, "B", balB)),
        EthSnapshot(wei))

\* The balances the node answers with.
TokenBalances(symbol) == IF symbol = "A" THEN 0..MaxAmount ELSE {0}
EthBalances == {25}

HoldingsLedgers(tokens) ==
    { get_positions(tokens, a, b, w) :
        a \in TokenBalances("A"), b \in TokenBalances("B"), w \in EthBalances }

\* VenusReportReader.__fetch_pool_snapshot: net = supply - borrow.
PoolPosition(symbol, supply, borrow, dec) ==
    symbol :> LSN(Num(supply - borrow, dec), Num(supply, dec), Num(borrow, dec))

\* The positions a protocol report may hold: nothing, a supply of A, a supply
\* of A with a larger borrow of it (net -1), a supply of the native coin, a
\* position in the symbol that has no price reader.
ProtocolLedgers(tokens) ==
    { EmptyDict,
      PoolPosition("A", MaxAmount, 0, tokens["A"].decimals),
      PoolPosition("A", 1, 2, tokens["A"].decimals),
      PoolPosition(ETH, 1, 0, tokens[ETH].decimals),
      PoolPosition(Unlisted, 1, 0, ETH_DECIMALS) }

ProducerLedgers(tokens, p) ==
    IF p = Holdings THEN HoldingsLedgers(tokens) ELSE ProtocolLedgers(tokens)

\* Chainlink's (decimals, latestRoundData.answer) of the symbol's feed: 2 with
\* no decimals for A, 3.995 for B (4.00 at the decimals of a price).
ChainlinkAnswers(symbol) == IF symbol = "A" THEN { Num(2, 0) } ELSE { Num(3995, 3) }

\* Pair.getReserves: (reserve0, reserve1); an empty pool answers zeros.
PairReserves == { <<0, 0>>, <<40, 8000>> }

\* ChainlinkPriceReader.get_price, after the call returned
ChainlinkPrice(answer) == set_decimals(answer, PRICE_DECIMALS)

\* PancakeswapPriceReader.get_price, after the call returned: the price, or
\* the ZeroDivisionError that Number.__floordiv__ raises on a zero divisor.
Raise(e) ==
    [ok |-> FALSE, exc |-> e, val |-> Num(0, 0),
     args |-> IF e = "ZeroDivisionError"
              THEN <<"integer division or modulo by zero">> ELSE <<>>]
Return(v) == [ok |-> TRUE, exc |-> "", val |-> v, args |-> <<>>]

PancakePrice(tokens, symbol, position, quote_price, reserves) ==
    LET token == tokens[symbol]
        net == position.net
        quote_symbol == token.pricing.quote
        quote_decimals == IF quote_symbol # ETH
                          THEN tokens[quote_symbol].decimals ELSE ETH_DECIMALS
        x_int == IF token.pricing.index = 1 THEN reserves[2] ELSE reserves[1]
        y_int == IF token.pricing.index = 1 THEN reserves[1] ELSE reserves[2]
        reserve_x == set_decimals(Num(x_int, token.decimals), POSITION_DECIMALS)
        reserve_y == set_decimals(Num(y_int, quote_decimals), POSITION_DECIMALS)
        constant_k == NumberMul(reserve_x, reserve_y)
        new_x == NumberAdd(reserve_x, net)
    IN  IF net.value = 0
        THEN IF reserve_x.value = 0 THEN Raise("ZeroDivisionError")
             ELSE Return(NumberMul(set_decimals(NumberFloorDiv(reserve_y, reserve_x),
                                                PRICE_DECIMALS), quote_price))
        ELSE IF new_x.value = 0 THEN Raise("ZeroDivisionError")
             ELSE LET units_y == NumberSub(reserve_y, NumberFloorDiv(constant_k, new_x))
                  IN  Return(NumberMul(set_decimals(NumberFloorDiv(units_y, net),
                                                    PRICE_DECIMALS), quote_price))

\* ------------------------------------------------------------------ state
VARIABLES
    tokens,          \* config.tokens
    constructed,     \* whether BaseAggregator.__init__ returned (no KeyError)
    price_readers,   \* BaseAggregator.price_readers: symbol -> reader id
    call,            \* the request made of the aggregator: [op, st, exc, args]
    report,          \* the ChainReport / ChainPricedReport / Number returned
    pc,              \* where each producer's coroutine stands
    ledger,          \* the positions each producer read
    priced,          \* the priced positions each producer returned
    perr,            \* the exception a failed producer raised
    num_coroutines,  \* LazyPriceResolver.num_coroutines
    counter,         \* LazyPriceResolver.counter
    is_ready_to_fetch_prices,   \* LazyPriceResolver's asyncio.Event
    positions,       \* LazyPriceResolver.positions
    tasks,           \* LazyPriceResolver.tasks: symbol -> the get_price task
    results,         \* LazyPriceResolver.results
    req,             \* the resolve_price coroutines of each requester's gather
    sub,             \* the resolve_price coroutine inside each get_price task
    calls,           \* how many times get_price was called, per symbol
    completed,       \* per requester, its resolve_price calls in order of return
    fn,              \* the operation of numbers.py / structs.py called on its own
    inp,             \* its operands
    out,             \* what it returned
    now              \* loop.time(), counted from the opening of the barrier

resolver == <<num_coroutines, counter, is_ready_to_fetch_prices, positions,
              tasks, results>>
program == <<tokens, constructed, price_readers, call, report, pc, ledger, priced,
             perr, num_coroutines, counter, is_ready_to_fetch_prices, positions,
             tasks, results, req, sub, calls, completed, now>>
vars == <<program, fn, inp, out>>

NoNumber == Num(0, 0)
\* A resolve_price coroutine: "none" (not created), "ready" (scheduled to
\* run), "barrier" (suspended in Event.wait), "awaiting" (suspended in
\* wait_for), "returned", "raised".
\* exc is the class of the exception raised, args the arguments it carries.
NoReq == [st |-> "none", deadline |-> 0, val |-> NoNumber, exc |-> "", args |-> <<>>]
\* A get_price task: "new" (created, not yet run), "sub" (awaiting the quote's
\* price), "io" (awaiting make_eth_call), "done", "error", "cancelled".
NewTask(position) ==
    [st |-> "new", pos |-> position, val |-> NoNumber, exc |-> "", args |-> <<>>]
Running == {"new", "sub", "io"}
Finished == {"done", "error", "cancelled"}

\* No report has been requested yet.
ProgramInit ==
    /\ tokens \in Configs
    /\ constructed = AggregatorInitOk(tokens)
    /\ price_readers = IF AggregatorInitOk(tokens)
                       THEN AggregatorPriceReaders(tokens) ELSE <<>>
    /\ call = [op |-> "none", st |-> "idle", exc |-> "", args |-> <<>>]
    /\ report = <<>>
    /\ pc = [p \in Producers |-> "idle"]
    /\ ledger = [p \in Producers |-> EmptyDict]
    /\ priced = [p \in Producers |-> <<>>]
    /\ perr = [p \in Producers |-> ""]
    /\ num_coroutines = 0
    /\ counter = 0
    /\ is_ready_to_fetch_prices = FALSE
    /\ positions = EmptyDict
    /\ tasks = <<>>
    /\ results = <<>>
    /\ req = [p \in Requesters |-> [s \in Symbols |-> NoReq]]
    /\ sub = [s \in Tokens |-> NoReq]
    /\ calls = [s \in Symbols |-> 0]
    /\ completed = [p \in Requesters |-> <<>>]
    /\ now = 0

Init ==
    /\ ProgramInit
    /\ fn = "none" /\ inp = <<>> /\ out = <<>>

\* ------------------------------------------------------ LazyPriceResolver
\* LazyPriceResolver.__init__, `num_coroutines: int = 1`
DefaultNumCoroutines == 1

\* LazyPriceResolver.__init__
NewResolver(n) ==
    /\ num_coroutines' = n
    /\ counter' = 0
    /\ is_ready_to_fetch_prices' = FALSE
    /\ positions' = EmptyDict
    /\ tasks' = <<>>
    /\ results' = <<>>

\* (mutation) the event is set by every call, whatever the counter
update_positions_early(other) ==
    /\ positions' = PositionsIAdd(positions, other)
    /\ counter' = counter + 1
    /\ is_ready_to_fetch_prices' = TRUE

\* (mutation) the event is set once the counter is not below num_coroutines
update_positions_atLeast(other) ==
    /\ positions' = PositionsIAdd(positions, other)
    /\ counter' = counter + 1
    /\ is_ready_to_fetch_prices' =
          (is_ready_to_fetch_prices \/ counter + 1 >= num_coroutines)

\* LazyPriceResolver.update_positions
update_positions(other) ==
    /\ positions' = PositionsIAdd(positions, other)
    /\ counter' = counter + 1
    /\ is_ready_to_fetch_prices' =
          (is_ready_to_fetch_prices \/ counter + 1 = num_coroutines)

\* (mutation) resolve_price without the wait on the event
BarrierOpen_nowait == TRUE

\* resolve_price, `await self.is_ready_to_fetch_prices.wait()`: whether the
\* coroutine goes on without suspending.
BarrierOpen == is_ready_to_fetch_prices

\* (mutation) a lookup that never fails, as price_readers.get(symbol) would
LookupFails_never(symbol) == FALSE

\* resolve_price, `self.price_readers[symbol]`: evaluated only when no task
\* is recorded for the symbol; a KeyError when the symbol has no reader.
LookupFails(symbol) == symbol \notin DOMAIN tasks /\ symbol \notin DOMAIN price_readers

\* (mutation) resolve_price without the `if symbol not in self.tasks.keys()`
Dispatched_always(symbol) ==
    [tasks |-> (symbol :> NewTask(PositionsGet(positions, symbol))) @@ tasks,
     calls |-> [calls EXCEPT ![symbol] = @ + 1],
     positions |-> positions]

\* (mutation) a get that records the default under the key, as
\* dict.setdefault does
PositionsAfterGet_setdefault(P, symbol) ==
    IF symbol \in DOMAIN P THEN P ELSE (symbol :> LSNZero) @@ P

\* PositionsDict.get, `super().get(key, LongShortNumbers())`: the dict after
\* the call is the dict before it
PositionsAfterGet(P, symbol) == P

\* (mutation) a cancelled task is replaced by a new one
Dispatched_retry(symbol) ==
    IF symbol \in DOMAIN tasks /\ tasks[symbol].st # "cancelled"
    THEN [tasks |-> tasks, calls |-> calls, positions |-> positions]
    ELSE [tasks |-> (symbol :> NewTask(PositionsGet(positions, symbol))) @@ tasks,
          calls |-> [calls EXCEPT ![symbol] = @ + 1],
          positions |-> PositionsAfterGet(positions, symbol)]

\* resolve_price, `if symbol not in self.tasks.keys(): self.tasks[symbol] =
\* asyncio.create_task(get_price(symbol, self.positions.get(symbol), ...))`
\* gives self.tasks and the count of get_price calls after the statement.
Dispatched(symbol) ==
    IF symbol \in DOMAIN tasks
    THEN [tasks |-> tasks, calls |-> calls, positions |-> positions]
    ELSE [tasks |-> (symbol :> NewTask(PositionsGet(positions, symbol))) @@ tasks,
          calls |-> [calls EXCEPT ![symbol] = @ + 1],
          positions |-> PositionsAfterGet(positions, symbol)]

\* resolve_price, `await asyncio.wait_for(self.tasks[symbol], 10)`
\* arms a timer TIMEOUT from now.
Await ==
    [st |-> "awaiting", deadline |-> now + TIMEOUT, val |-> NoNumber, exc |-> "",
     args |-> <<>>]
Returned(r, v) == [r EXCEPT !.st = "returned", !.val = v]
RaisedWith(r, e, a) == [r EXCEPT !.st = "raised", !.exc = e, !.args = a]
\* wait_for's `raise exceptions.TimeoutError()` and a task's CancelledError
\* are constructed without arguments
Raised(r, e) == RaisedWith(r, e, <<>>)

\* wait_for's timer has fired for the awaiter.
Expired(r) == now >= r.deadline

\* (mutation) the task's exception is caught and reported as a timeout
WaitForOutcome_masked(r, t) ==
    IF t.st = "done" THEN Returned(r, t.val)
    ELSE IF t.st = "error" THEN Raised(r, "TimeoutError")
    ELSE Raised(r, "CancelledError")

\* What wait_for hands the awaiter of a finished task: the task's result, the
\* task's own exception, or CancelledError for a cancelled task.
WaitForOutcome(r, t) ==
    IF t.st = "done" THEN Returned(r, t.val)
    ELSE IF t.st = "error" THEN RaisedWith(r, t.exc, t.args)
    ELSE Raised(r, "CancelledError")

Quote(symbol) == tokens[symbol].pricing.quote

\* Cancelling a task cancels what it awaits: a get_price task suspended in
\* wait_for(tasks[quote]) cancels the quote's task with it.
RECURSIVE CancelSet(_, _, _)
CancelSet(T, symbol, seen) ==
    IF symbol \in seen \/ symbol \notin DOMAIN T \/ T[symbol].st \notin Running
    THEN seen
    ELSE IF T[symbol].st = "sub"
         THEN CancelSet(T, Quote(symbol), seen \cup {symbol})
         ELSE seen \cup {symbol}

Cancel(T, symbol) ==
    LET gone == CancelSet(T, symbol, {})
    IN  [s \in DOMAIN T |-> IF s \in gone THEN [T[s] EXCEPT !.st = "cancelled"] ELSE T[s]]

CancelSubs(S, T, symbol) ==
    LET gone == CancelSet(T, symbol, {})
    IN  [s \in DOMAIN S |->
            IF s \in gone /\ S[s].st = "awaiting" THEN Raised(S[s], "CancelledError")
            ELSE S[s]]

\* ------------------------------------------------------------- aggregator
\* (mutation) the holdings reader is not counted
NumCoroutines_protocolsOnly == Cardinality(Protocols)

\* get_chain_priced_report_async: `num_coroutines=len(self.protocol_report_readers) + 1`
NumCoroutines == Cardinality(Protocols) + 1

\* get_chain_priced_report_async up to its `await asyncio.gather(...)`: one
\* resolver, and every producer's coroutine started with it.
StartPriced ==
    /\ constructed /\ call.st = "idle"
    /\ call' = [op |-> "priced", st |-> "running", exc |-> "", args |-> <<>>]
    /\ NewResolver(NumCoroutines)
    /\ pc' = [p \in Producers |-> "fetch"]
    /\ UNCHANGED <<fn, inp, out, completed, tokens, constructed, price_readers, report, ledger, priced, perr,
                   req, sub, calls, now>>

\* get_chain_report_async up to `await self.holdings_reader.get_positions(session)`:
\* the protocol readers are not started before that await returns.
StartUnpriced ==
    /\ constructed /\ call.st = "idle"
    /\ call' = [op |-> "unpriced", st |-> "running", exc |-> "", args |-> <<>>]
    /\ pc' = [pc EXCEPT ![Holdings] = "fetch"]
    /\ UNCHANGED <<fn, inp, out, completed, tokens, constructed, price_readers, report, ledger, priced, perr,
                   resolver, req, sub, calls, now>>

\* (mutation) an event whose set() wakes nobody
Release_none(R, open) == R

\* Waking the coroutines suspended in Event.wait once the event is set.
Release(R, open) ==
    [p \in DOMAIN R |-> [s \in DOMAIN R[p] |->
        IF open /\ R[p][s].st = "barrier" THEN [R[p][s] EXCEPT !.st = "ready"]
        ELSE R[p][s]]]

\* get_priced_positions / get_priced_report, from the return of the
\* producer's reads to the await of resolve_prices: update_positions, then
\* one resolve_price coroutine per symbol held (gather of nothing is done
\* at once, and the producer returns an empty result without suspending).
Registered(p, L) ==
    /\ ledger' = [ledger EXCEPT ![p] = L]
    /\ update_positions(L)
    /\ req' = Release([req EXCEPT ![p] =
                          [s \in Symbols |-> IF s \in DOMAIN L
                                             THEN [NoReq EXCEPT !.st = "ready"]
                                             ELSE NoReq]],
                      is_ready_to_fetch_prices')
    /\ pc' = [pc EXCEPT ![p] = IF DOMAIN L = {} THEN "done" ELSE "resolving"]
    /\ priced' = [priced EXCEPT ![p] = IF DOMAIN L = {} THEN EmptyDict ELSE @]

\* A producer of the priced report has read its positions.
FetchPriced(p) ==
    /\ call.op = "priced" /\ pc[p] = "fetch"
    /\ \E L \in ProducerLedgers(tokens, p) : Registered(p, L)
    /\ UNCHANGED <<fn, inp, out, completed, tokens, constructed, price_readers, call, report, perr,
                   num_coroutines, tasks, results, sub, calls, now>>

\* A producer's read fails (the node is unreachable): it raises before it
\* has called update_positions.
FetchFails(p) ==
    /\ pc[p] = "fetch"
    /\ pc' = [pc EXCEPT ![p] = "failed"]
    /\ perr' = [perr EXCEPT ![p] = "NetworkError"]
    \* get_chain_report_async awaits the holdings reader directly, not in a gather
    /\ call' = IF call.op = "unpriced" /\ p = Holdings
               THEN [call EXCEPT !.st = "raised", !.exc = "NetworkError"] ELSE call
    /\ UNCHANGED <<fn, inp, out, completed, tokens, constructed, price_readers, report, ledger, priced,
                   resolver, req, sub, calls, now>>

\* get_chain_report_async: get_positions returns, and only now the protocol
\* readers' get_report coroutines are gathered.
HoldingsFetchedUnpriced ==
    /\ call.op = "unpriced" /\ pc[Holdings] = "fetch"
    /\ \E L \in HoldingsLedgers(tokens) : ledger' = [ledger EXCEPT ![Holdings] = L]
    /\ pc' = [p \in Producers |-> IF p = Holdings THEN "done" ELSE "fetch"]
    /\ UNCHANGED <<fn, inp, out, completed, tokens, constructed, price_readers, call, report, priced, perr,
                   resolver, req, sub, calls, now>>

ProtocolFetchedUnpriced(p) ==
    /\ call.op = "unpriced" /\ p \in Protocols /\ pc[p] = "fetch"
    /\ \E L \in ProtocolLedgers(tokens) : ledger' = [ledger EXCEPT ![p] = L]
    /\ pc' = [pc EXCEPT ![p] = "done"]
    /\ UNCHANGED <<fn, inp, out, completed, tokens, constructed, price_readers, call, report, priced, perr,
                   resolver, req, sub, calls, now>>

\* ---------------------------------------------------------- resolve_price
\* A producer's resolve_price(symbol) runs: it suspends at the barrier, or
\* fails on the reader lookup, or records the task and suspends in wait_for.
ResolvePriceStep(p, symbol) ==
    /\ req[p][symbol].st = "ready"
    /\ IF ~BarrierOpen
       THEN /\ req' = [req EXCEPT ![p][symbol].st = "barrier"]
            /\ UNCHANGED <<tasks, calls, positions>>
       ELSE IF LookupFails(symbol)
       THEN /\ req' = [req EXCEPT ![p][symbol] = RaisedWith(@, "KeyError", <<symbol>>)]
            /\ UNCHANGED <<tasks, calls, positions>>
       ELSE /\ tasks' = Dispatched(symbol).tasks
            /\ calls' = Dispatched(symbol).calls
            /\ positions' = Dispatched(symbol).positions
            /\ req' = [req EXCEPT ![p][symbol] = Await]
    /\ UNCHANGED <<fn, inp, out, completed, tokens, constructed, price_readers, call, report, pc, ledger, priced,
                   perr, num_coroutines, counter, is_ready_to_fetch_prices,
                   results, sub, now>>

\* The awaited task is done: wait_for hands its result, its exception or its
\* cancellation to the awaiter; `self.results[symbol] = ...` on a result.
ResolvePriceResume(p, symbol) ==
    /\ req[p][symbol].st = "awaiting"
    /\ tasks[symbol].st \in Finished
    /\ LET t == tasks[symbol] IN
       /\ req' = [req EXCEPT ![p][symbol] = WaitForOutcome(@, t)]
       /\ results' = IF t.st = "done" THEN (symbol :> t.val) @@ results ELSE results
       /\ completed' = IF t.st = "done"
                       THEN [completed EXCEPT ![p] = Append(@, symbol)] ELSE completed
    /\ UNCHANGED <<fn, inp, out, tokens, constructed, price_readers, call, report, pc, ledger, priced,
                   perr, num_coroutines, counter, is_ready_to_fetch_prices, positions,
                   tasks, sub, calls, now>>

\* The awaiter's 10 seconds are over: wait_for cancels the task and raises
\* TimeoutError.  (An awaiter whose task another awaiter's timeout cancelled
\* at the same instant sees either its own timeout or the cancellation.)
ResolvePriceTimeout(p, symbol) ==
    /\ req[p][symbol].st = "awaiting"
    /\ Expired(req[p][symbol])
    /\ tasks[symbol].st \in Running \cup {"cancelled"}
    /\ req' = [req EXCEPT ![p][symbol] = Raised(@, "TimeoutError")]
    /\ tasks' = Cancel(tasks, symbol)
    /\ sub' = CancelSubs(sub, tasks, symbol)
    /\ UNCHANGED <<fn, inp, out, completed, tokens, constructed, price_readers, call, report, pc, ledger, priced,
                   perr, num_coroutines, counter, is_ready_to_fetch_prices, positions,
                   results, calls, now>>

\* -------------------------------------------------------------- get_price
\* The first step of a get_price task.  ChainlinkPriceReader goes straight to
\* its eth_call; PancakeswapPriceReader first awaits resolve_price(quote),
\* which finds the barrier open and records the quote's task if there is none.
GetPriceStart(symbol) ==
    /\ symbol \in DOMAIN tasks /\ tasks[symbol].st = "new"
    /\ IF price_readers[symbol] = "chainlink"
       THEN /\ tasks' = [tasks EXCEPT ![symbol].st = "io"]
            /\ UNCHANGED <<sub, calls, positions>>
       ELSE IF LookupFails(Quote(symbol))
       THEN /\ tasks' = [tasks EXCEPT ![symbol].st = "error",
                                       ![symbol].exc = "KeyError",
                                       ![symbol].args = <<Quote(symbol)>>]
            /\ sub' = [sub EXCEPT ![symbol] =
                          RaisedWith(@, "KeyError", <<Quote(symbol)>>)]
            /\ UNCHANGED <<calls, positions>>
       ELSE /\ tasks' = [Dispatched(Quote(symbol)).tasks EXCEPT ![symbol].st = "sub"]
            /\ calls' = Dispatched(Quote(symbol)).calls
            /\ positions' = Dispatched(Quote(symbol)).positions
            /\ sub' = [sub EXCEPT ![symbol] = Await]
    /\ UNCHANGED <<fn, inp, out, completed, tokens, constructed, price_readers, call, report, pc, ledger, priced,
                   perr, num_coroutines, counter, is_ready_to_fetch_prices,
                   results, req, now>>

\* The quote's task is done: the pancakeswap task goes on to its eth_call
\* with the quote's price, or ends with the quote's exception.
GetPriceQuoteResolved(symbol) ==
    /\ symbol \in DOMAIN tasks /\ tasks[symbol].st = "sub"
    /\ tasks[Quote(symbol)].st \in Finished
    /\ LET q == tasks[Quote(symbol)] IN
       /\ sub' = [sub EXCEPT ![symbol] = WaitForOutcome(@, q)]
       /\ results' = IF q.st = "done" THEN (Quote(symbol) :> q.val) @@ results ELSE results
       \* a coroutine that lets CancelledError out ends as a cancelled task
       /\ tasks' = [tasks EXCEPT ![symbol] =
                     IF sub'[symbol].st = "returned" THEN [@ EXCEPT !.st = "io"]
                     ELSE IF sub'[symbol].exc = "CancelledError"
                     THEN [@ EXCEPT !.st = "cancelled"]
                     ELSE [@ EXCEPT !.st = "error", !.exc = sub'[symbol].exc,
                                    !.args = sub'[symbol].args]]
    /\ UNCHANGED <<fn, inp, out, completed, tokens, constructed, price_readers, call, report, pc, ledger, priced,
                   perr, num_coroutines, counter, is_ready_to_fetch_prices, positions,
                   req, calls, now>>

\* What get_price computes once its eth_call has answered.
GetPriceResult(symbol, answer, reserves) ==
    IF price_readers[symbol] = "chainlink"
    THEN Return(ChainlinkPrice(answer))
    ELSE PancakePrice(tokens, symbol, tasks[symbol].pos, sub[symbol].val, reserves)

Finish(t, outcome) ==
    IF outcome.ok THEN [t EXCEPT !.st = "done", !.val = outcome.val]
    ELSE [t EXCEPT !.st = "error", !.exc = outcome.exc, !.args = outcome.args]

\* make_eth_call answers and get_price runs to its end.
GetPriceReturns(symbol) ==
    /\ symbol \in DOMAIN tasks /\ tasks[symbol].st = "io"
    /\ \E answer \in ChainlinkAnswers(symbol), reserves \in PairReserves :
          tasks' = [tasks EXCEPT ![symbol] =
                       Finish(@, GetPriceResult(symbol, answer, reserves))]
    /\ UNCHANGED <<fn, inp, out, completed, tokens, constructed, price_readers, call, report, pc, ledger, priced,
                   perr, num_coroutines, counter, is_ready_to_fetch_prices, positions,
                   results, req, sub, calls, now>>

\* make_eth_call raises (the node is unreachable).
GetPriceCallFails(symbol) ==
    /\ symbol \in DOMAIN tasks /\ tasks[symbol].st = "io"
    /\ tasks' = [tasks EXCEPT ![symbol] = Finish(@, Raise("NetworkError"))]
    /\ UNCHANGED <<fn, inp, out, completed, tokens, constructed, price_readers, call, report, pc, ledger, priced,
                   perr, num_coroutines, counter, is_ready_to_fetch_prices, positions,
                   results, req, sub, calls, now>>

\* -------------------------------------------------------------- producers
\* (mutation) gather(return_exceptions=True): a failed child is a result
GatherReturns_tolerant(p) ==
    \A s \in DOMAIN ledger[p] : req[p][s].st \in {"returned", "raised"}

\* `prices = await price_resolver.resolve_prices(positions.keys(), session)`:
\* the gather returns once every resolve_price has returned.
GatherReturns(p) == \A s \in DOMAIN ledger[p] : req[p][s].st = "returned"

\* `positions.keys()`: a dict lists its keys in the order of insertion, the
\* tokens in the order of the configuration and the native coin last.
KeyOrder == <<"A", "B", "U">>
Keys(L) == SelectSeq(KeyOrder, LAMBDA s : s \in DOMAIN L)

\* (mutation) the results in the order of completion, as as_completed gives
gather_as_completed(p, symbols) ==
    [i \in 1..Len(symbols) |->
        req[p][IF i <= Len(completed[p]) THEN completed[p][i] ELSE symbols[i]].val]

\* `await asyncio.gather(*[self.resolve_price(symbol, session) ...])`: the
\* results in the order of the awaitables, whatever the order of completion
gather(p, symbols) == [i \in 1..Len(symbols) |-> req[p][symbols[i]].val]

\* LazyPriceResolver.resolve_prices:
\* `{symbol: price for symbol, price in zip(symbols, prices)}`
resolve_prices(p, symbols) ==
    LET prices == gather(p, symbols)
        Last(s) == CHOOSE i \in 1..Len(symbols) :
                      /\ symbols[i] = s
                      /\ \A j \in 1..Len(symbols) : symbols[j] = s => j <= i
    IN  [s \in {symbols[i] : i \in 1..Len(symbols)} |-> prices[Last(s)]]

\* `prices[symbol]`, in get_priced_positions / get_priced_report
PriceOf(p, symbol) == resolve_prices(p, Keys(ledger[p]))[symbol]

\* the loop pricing the positions, in get_priced_positions / get_priced_report
PricePositions(p) ==
    [s \in DOMAIN ledger[p] |->
        PricedPosition(ledger[p][s], broadcast_mul(ledger[p][s], PriceOf(p, s)))]

ProducerReturns(p) ==
    /\ pc[p] = "resolving"
    /\ GatherReturns(p)
    /\ priced' = [priced EXCEPT ![p] = PricePositions(p)]
    /\ pc' = [pc EXCEPT ![p] = "done"]
    /\ UNCHANGED <<fn, inp, out, completed, tokens, constructed, price_readers, call, report, ledger, perr,
                   resolver, req, sub, calls, now>>

\* gather (return_exceptions=False) raises the exception of a child as soon
\* as one raises; the producer does not catch it.
ProducerRaises(p) ==
    /\ pc[p] = "resolving"
    /\ \E s \in DOMAIN ledger[p] :
          /\ req[p][s].st = "raised"
          /\ perr' = [perr EXCEPT ![p] = req[p][s].exc]
    /\ pc' = [pc EXCEPT ![p] = "failed"]
    /\ UNCHANGED <<fn, inp, out, completed, tokens, constructed, price_readers, call, report, ledger, priced,
                   resolver, req, sub, calls, now>>

\* ---------------------------------------------------------------- reports
RECURSIVE SumValues(_, _)
SumValues(P, keys) ==
    IF keys = {} THEN LSNZero
    ELSE LET k == CHOOSE x \in keys : TRUE
         IN  LSNAdd(SumValues(P, keys \ {k}), P[k].value)

PricedReport(P) == [value |-> SumValues(P, DOMAIN P), positions |-> P]

\* `total += report.positions` for every protocol, in the readers' order
RECURSIVE FoldPriced(_, _)
FoldPriced(total, n) ==
    IF n = 0 THEN total
    ELSE PricedPositionsIAdd(FoldPriced(total, n - 1), priced[n])

\* (mutation) `total_value = LongShortNumbers()` for
\* `total_value = holdings_value.deepcopy()`
RECURSIVE FoldValue_fromZero(_, _)
FoldValue_fromZero(total_value, n) ==
    IF n = 0 THEN LSNZero
    ELSE LSNAdd(FoldValue_fromZero(total_value, n - 1),
                SumValues(priced[n], DOMAIN priced[n]))

RECURSIVE FoldValue(_, _)
FoldValue(total_value, n) ==
    IF n = 0 THEN total_value
    ELSE LSNAdd(FoldValue(total_value, n - 1), SumValues(priced[n], DOMAIN priced[n]))

ChainPricedReport ==
    LET holdings == priced[Holdings]
        holdings_value == SumValues(holdings, DOMAIN holdings)
    IN  [total |-> [value |-> FoldValue(holdings_value, NumProtocols),
                    positions |-> FoldPriced(PricedPositionsIAdd(EmptyDict, holdings),
                                             NumProtocols)],
         holdings |-> [value |-> holdings_value, positions |-> holdings],
         protocols |-> [p \in Protocols |-> PricedReport(priced[p])]]

\* (mutation) `total = report.positions` for `total += report.positions`
FoldPositions_assign(total, n) == IF n = 0 THEN total ELSE ledger[n]

\* `total += report.positions` for every protocol, in the readers' order
RECURSIVE FoldPositions(_, _)
FoldPositions(total, n) ==
    IF n = 0 THEN total
    ELSE PositionsIAdd(FoldPositions(total, n - 1), ledger[n])

ChainReport ==
    [total |-> FoldPositions(PositionsIAdd(EmptyDict, ledger[Holdings]), NumProtocols),
     holdings |-> ledger[Holdings],
     protocols |-> [p \in Protocols |-> ledger[p]]]

\* The outer gather returned every producer's result.
CallReturnsPriced ==
    /\ call.op = "priced" /\ call.st = "running"
    /\ \A p \in Producers : pc[p] = "done"
    /\ report' = ChainPricedReport
    /\ call' = [call EXCEPT !.st = "returned"]
    /\ UNCHANGED <<fn, inp, out, completed, tokens, constructed, price_readers, pc, ledger, priced, perr,
                   resolver, req, sub, calls, now>>

CallReturnsUnpriced ==
    /\ call.op = "unpriced" /\ call.st = "running"
    /\ \A p \in Producers : pc[p] = "done"
    /\ report' = ChainReport
    /\ call' = [call EXCEPT !.st = "returned"]
    /\ UNCHANGED <<fn, inp, out, completed, tokens, constructed, price_readers, pc, ledger, priced, perr,
                   resolver, req, sub, calls, now>>

\* The outer gather raises the exception of a producer that raised.
CallRaises ==
    /\ call.st = "running" /\ call.op # "convert"
    /\ \E p \in Producers :
          /\ pc[p] = "failed"
          /\ call' = [call EXCEPT !.st = "raised", !.exc = perr[p]]
    /\ UNCHANGED <<fn, inp, out, completed, tokens, constructed, price_readers, report, pc, ledger, priced, perr,
                   resolver, req, sub, calls, now>>

\* ------------------------------------------------------------ convert_units
\* The amounts asked to be converted: 100 units, and 0.7 of either sign.
ConvertAmounts == { Num(100, 0), Num(7, 1), Num(0 - 7, 1) }

\* convert_units_async up to its `await asyncio.gather(...)`: a resolver of
\* the default num_coroutines, registered once with an empty PositionsDict,
\* and one resolve_price coroutine for each of the two symbols.  (With
\* from_symbol = to_symbol the two coroutines await the same task from the
\* same instant and end alike; one record stands for both.)
StartConvert ==
    /\ constructed /\ call.st = "idle"
    /\ \E amount \in ConvertAmounts, from_symbol \in Symbols, to_symbol \in Symbols :
          /\ call' = [op |-> "convert", st |-> "running", exc |-> "",
                      args |-> <<amount, from_symbol, to_symbol>>]
          /\ req' = [req EXCEPT ![Caller] =
                        [s \in Symbols |-> IF s \in {from_symbol, to_symbol}
                                           THEN [NoReq EXCEPT !.st = "ready"]
                                           ELSE NoReq]]
    /\ num_coroutines' = DefaultNumCoroutines
    /\ counter' = 1
    /\ is_ready_to_fetch_prices' = (1 = DefaultNumCoroutines)
    /\ positions' = PositionsIAdd(EmptyDict, EmptyDict)
    /\ tasks' = <<>>
    /\ results' = <<>>
    /\ UNCHANGED <<fn, inp, out, completed, tokens, constructed, price_readers, report, pc, ledger,
                   priced, perr, sub, calls, now>>

\* (mutation) the product of the prices for their ratio
convert_units_product(amount, from_price, to_price) ==
    Return(NumberMul(NumberMul(amount, from_price), to_price))

\* `return amount * from_price // to_price`: Number.__mul__, then
\* Number.__floordiv__, which raises on a zero divisor.
convert_units(amount, from_price, to_price) ==
    IF to_price.value = 0 THEN Raise("ZeroDivisionError")
    ELSE Return(NumberFloorDiv(NumberMul(amount, from_price), to_price))

\* the gather of convert_units_async returns once both prices are resolved
ConvertGatherReturns ==
    \A s \in {call.args[2], call.args[3]} : req[Caller][s].st = "returned"

ConvertReturns ==
    /\ call.op = "convert" /\ call.st = "running"
    /\ ConvertGatherReturns
    /\ LET prices == gather(Caller, <<call.args[2], call.args[3]>>)
           result == convert_units(call.args[1], prices[1], prices[2])
       IN  IF result.ok
           THEN /\ report' = result.val
                /\ call' = [call EXCEPT !.st = "returned"]
           ELSE /\ report' = report
                /\ call' = [call EXCEPT !.st = "raised", !.exc = result.exc]
    /\ UNCHANGED <<fn, inp, out, completed, tokens, constructed, price_readers, pc, ledger, priced, perr,
                   resolver, req, sub, calls, now>>

\* the gather raises the exception of a resolve_price that raised
ConvertRaises ==
    /\ call.op = "convert" /\ call.st = "running"
    /\ \E s \in {call.args[2], call.args[3]} :
          /\ req[Caller][s].st = "raised"
          /\ call' = [call EXCEPT !.st = "raised", !.exc = req[Caller][s].exc]
    /\ UNCHANGED <<fn, inp, out, completed, tokens, constructed, price_readers, report, pc, ledger, priced,
                   perr, resolver, req, sub, calls, now>>

\* ------------------------------------------------------------------- time
\* The deadlines of the wait_for calls still suspended.
Timers ==
    { req[x[1]][x[2]].deadline :
        x \in {y \in Requesters \X Symbols : req[y[1]][y[2]].st = "awaiting"} }
    \cup { sub[s].deadline : s \in {x \in Tokens : sub[x].st = "awaiting"} }

\* What the loop still has to run before it sleeps: scheduled coroutines,
\* awaiters of finished tasks, expired timers, finished gathers.
LoopBusy ==
    \/ \E p \in Requesters, s \in Symbols :
          \/ req[p][s].st = "ready"
          \/ /\ req[p][s].st = "awaiting"
             /\ \/ tasks[s].st \in Finished
                \/ Expired(req[p][s])
    \/ \E s \in DOMAIN tasks :
          \/ tasks[s].st = "new"
          \/ tasks[s].st = "sub" /\ tasks[Quote(s)].st \in Finished
    \/ \E p \in Producers :
          /\ pc[p] = "resolving"
          /\ \/ GatherReturns(p)
             \/ \E s \in DOMAIN ledger[p] : req[p][s].st = "raised"
    \/ /\ call.st = "running" /\ call.op # "convert"
       /\ \/ \E p \in Producers : pc[p] = "failed"
          \/ \A p \in Producers : pc[p] = "done"
    \/ /\ call.st = "running" /\ call.op = "convert"
       /\ \/ ConvertGatherReturns
          \/ \E s \in {call.args[2], call.args[3]} : req[Caller][s].st = "raised"

RECURSIVE Min(_)
Min(S) == LET x == CHOOSE y \in S : TRUE
          IN  IF S = {x} THEN x ELSE LET m == Min(S \ {x}) IN IF x < m THEN x ELSE m

\* The loop sleeps until the next timer expires.
Tick ==
    /\ ~LoopBusy
    /\ \E d \in Timers : d > now
    /\ now' = Min({d \in Timers : d > now})
    /\ UNCHANGED <<fn, inp, out, completed, tokens, constructed, price_readers, call, report, pc, ledger, priced,
                   perr, resolver, req, sub, calls>>

\* ---------------------------------------------------------- specification
\* The callbacks the event loop runs by itself.
LoopStep ==
    \/ \E p \in Requesters, s \in Symbols :
          \/ ResolvePriceStep(p, s)
          \/ ResolvePriceResume(p, s)
          \/ ResolvePriceTimeout(p, s)
    \/ \E s \in Tokens : GetPriceStart(s) \/ GetPriceQuoteResolved(s)
    \/ \E p \in Producers : ProducerReturns(p) \/ ProducerRaises(p)
    \/ CallReturnsPriced
    \/ CallReturnsUnpriced
    \/ CallRaises
    \/ ConvertReturns
    \/ ConvertRaises
    \/ Tick

\* The calls of the user and the answers of the node.
Environment ==
    \/ StartPriced
    \/ StartUnpriced
    \/ StartConvert
    \/ \E p \in Producers : FetchPriced(p) \/ FetchFails(p)
    \/ HoldingsFetchedUnpriced
    \/ \E p \in Protocols : ProtocolFetchedUnpriced(p)
    \/ \E s \in Tokens : GetPriceReturns(s) \/ GetPriceCallFails(s)

Next == LoopStep \/ Environment

Spec == Init /\ [][Next]_vars

\* The event loop keeps running its callbacks and timers; the node need not
\* ever answer.
FairSpec == Spec /\ WF_vars(LoopStep)

\* The event loop keeps running, and the node answers every eth_call of a
\* get_price that is left waiting for it.
LiveSpec ==
    /\ Spec
    /\ WF_vars(LoopStep)
    /\ \A s \in Tokens : WF_vars(GetPriceReturns(s))

\* ------------------------------------------ the resolver used on its own
\* LazyPriceResolver is a public class: a program may construct one with any
\* num_coroutines, register positions and ask for prices when it pleases.
\* The two callers of resolve_price.
EngineRequesters == {Holdings, Caller}

\* LazyPriceResolver(price_readers, num_coroutines)
EngineNew ==
    /\ constructed /\ call.st = "idle"
    /\ call' = [op |-> "engine", st |-> "running", exc |-> "", args |-> <<>>]
    /\ \E n \in 0..NumCoroutines : NewResolver(n)
    /\ UNCHANGED <<fn, inp, out, completed, tokens, constructed, price_readers, report, pc, ledger,
                   priced, perr, req, sub, calls, now>>

\* price_resolver.update_positions(L), L a supply of A; setting the event
\* wakes the coroutines suspended on it
EngineUpdate ==
    /\ call.op = "engine" /\ counter < NumCoroutines
    /\ update_positions(PoolPosition("A", 1, 0, tokens["A"].decimals))
    /\ req' = Release(req, is_ready_to_fetch_prices')
    /\ UNCHANGED <<fn, inp, out, completed, tokens, constructed, price_readers, call, report, pc, ledger,
                   priced, perr, num_coroutines, tasks, results, sub, calls, now>>

\* A caller starts price_resolver.resolve_price(symbol, session).
EngineResolve(p, symbol) ==
    /\ call.op = "engine" /\ req[p][symbol].st = "none"
    /\ req' = [req EXCEPT ![p][symbol].st = "ready"]
    /\ UNCHANGED <<fn, inp, out, completed, tokens, constructed, price_readers, call, report, pc, ledger,
                   priced, perr, resolver, sub, calls, now>>

EngineLoopStep ==
    \/ \E p \in EngineRequesters, s \in Tokens :
          \/ ResolvePriceStep(p, s)
          \/ ResolvePriceResume(p, s)
          \/ ResolvePriceTimeout(p, s)
    \/ \E s \in Tokens : GetPriceStart(s) \/ GetPriceQuoteResolved(s)
    \/ Tick

EngineEnvironment ==
    \/ EngineNew
    \/ EngineUpdate
    \/ \E p \in EngineRequesters, s \in Tokens : EngineResolve(p, s)
    \/ \E s \in Tokens : GetPriceReturns(s) \/ GetPriceCallFails(s)

EngineNext == EngineLoopStep \/ EngineEnvironment

\* The configurations in which every token has a price reader and quotes
\* the native coin, itself priced by an oracle.
EngineInit ==
    /\ Init
    /\ constructed
    /\ \A t \in Tokens : tokens[t].pricing.id = "chainlink" \/ Quote(t) = ETH

EngineSpec == EngineInit /\ [][EngineNext]_vars

\* ------------------------------------ the operations called on their own
\* The operands: Numbers of either sign, Position Ledgers and Priced
\* Position Ledgers over two symbols, with entries of different decimals.
Numbers == { Num(v, d) : v \in (0 - MaxValue)..MaxValue, d \in 0..MaxDecimals }

Entries ==
    { LSN(Num(v, d), Num(v, d), Num(0, 0)) : v \in 1..MaxAmount, d \in 0..1 }
    \cup { LSN(Num(0 - 1, 1), Num(1, 1), Num(2, 1)) }

Ledgers ==
    { [s \in S |-> IF s = "A" THEN e ELSE LSN(Num(25, 2), Num(25, 2), Num(0, 0))] :
        S \in SUBSET Tokens, e \in Entries }

Prices == { Num(2, 0), Num(15, 1) }

PricedEntries ==
    { PricedPosition(e, broadcast_mul(e, price)) : e \in Entries, price \in Prices }
    \cup { PricedPosition(LSN(Num(10, 0), Num(10, 0), Num(0, 0)),
                          LSN(Num(20, 0), Num(20, 0), Num(0, 0))),
           PricedPosition(LSN(Num(5, 0), Num(5, 0), Num(0, 0)),
                          LSN(Num(10, 0), Num(10, 0), Num(0, 0))) }

PricedLedgers ==
    { [s \in S |-> IF s = "A" THEN e
                   ELSE PricedPosition(LSN(Num(25, 2), Num(25, 2), Num(0, 0)),
                                       LSN(Num(50, 2), Num(50, 2), Num(0, 0)))] :
        S \in SUBSET Tokens, e \in PricedEntries }

Operands ==
    { <<"numbers", a, b>> : a \in Numbers, b \in Numbers }
    \cup { <<"ledgers", X, Y, Z>> : X \in Ledgers, Y \in Ledgers, Z \in Ledgers }
    \cup { <<"priced", P, Q>> : P \in PricedLedgers, Q \in PricedLedgers }
    \cup { <<"rescale", Num(v, d), target>> :
                v \in (0 - MaxScaled)..MaxScaled, d \in 0..MaxDecimals,
                target \in 0..(MaxDecimals + 1) }
    \cup { <<"position", e, price>> : e \in Entries, price \in Prices }

\* What a call leaves behind: what it returned or raised, and its operands
\* as they are after the call.
Called(ret, self, other) == [ret |-> ret, self |-> self, other |-> other]

\* Number.__add__ and Number.__sub__: the sum is made on a copy of self
Number_add(a, b) == Called(Return(NumberAdd(a, b)), a, b)
Number_sub(a, b) == Called(Return(NumberSub(a, b)), a, b)
\* Number.__mul__: the product is made on a copy of self
Number_mul(a, b) == Called(Return(NumberMul(a, b)), a, b)
\* (mutation) a zero divisor gives a zero quotient
Number_floordiv_total(a, b) ==
    IF b.value = 0 THEN Called(Return(Num(0, a.decimals)), a, b)
    ELSE Called(Return(NumberFloorDiv(a, b)), a, b)

\* Number.__floordiv__: a new Number, or the ZeroDivisionError of `//`
Number_floordiv(a, b) ==
    IF b.value = 0 THEN Called(Raise("ZeroDivisionError"), a, b)
    ELSE Called(Return(NumberFloorDiv(a, b)), a, b)

\* PositionsDict.__add__: `copy = PositionsDict(self); copy += other`
PositionsAdd(X, Y) == PositionsIAdd(X, Y)
\* PricedPositionsDict.__add__: `copy = self.deepcopy(); copy += other`
PricedPositionsAdd(P, Q) == PricedPositionsIAdd(P, Q)

AlgebraInit ==
    /\ ProgramInit
    /\ AggregatorInitOk(tokens)
    /\ \A t \in Tokens : tokens[t].pricing.id = "chainlink" \/ Quote(t) = ETH
    /\ fn = "none" /\ out = <<>>
    /\ inp \in Operands

NumberCall(name, result) ==
    /\ fn = "none" /\ inp[1] = "numbers"
    /\ fn' = name
    /\ out' = result
    /\ UNCHANGED <<program, inp>>

NumberAddCall == NumberCall("add", Number_add(inp[2], inp[3]))
NumberSubCall == NumberCall("sub", Number_sub(inp[2], inp[3]))
NumberMulCall == NumberCall("mul", Number_mul(inp[2], inp[3]))
NumberFloorDivCall == NumberCall("floordiv", Number_floordiv(inp[2], inp[3]))

\* Three ledgers merged two at a time, in both groupings and both orders,
\* and the first merged with the empty ledger on either side.
MergeLedgers ==
    /\ fn = "none" /\ inp[1] = "ledgers"
    /\ fn' = "merge"
    /\ LET X == inp[2]
           Y == inp[3]
           Z == inp[4]
       IN  out' = [xy |-> PositionsAdd(X, Y),
                   yx |-> PositionsAdd(Y, X),
                   xy_z |-> PositionsAdd(PositionsAdd(X, Y), Z),
                   x_yz |-> PositionsAdd(X, PositionsAdd(Y, Z)),
                   x_e |-> PositionsAdd(X, EmptyDict),
                   e_x |-> PositionsAdd(EmptyDict, X)]
    /\ UNCHANGED <<program, inp>>

\* Two priced ledgers merged in both orders.
MergePricedLedgers ==
    /\ fn = "none" /\ inp[1] = "priced"
    /\ fn' = "merge_priced"
    /\ out' = [pq |-> PricedPositionsAdd(inp[2], inp[3]),
               qp |-> PricedPositionsAdd(inp[3], inp[2])]
    /\ UNCHANGED <<program, inp>>

\* Number.set_decimals: self is rescaled in place and returned
Number_set_decimals(a, target) ==
    Called(Return(set_decimals(a, target)), set_decimals(a, target), target)

SetDecimalsCall ==
    /\ fn = "none" /\ inp[1] = "rescale"
    /\ fn' = "set_decimals"
    /\ out' = Number_set_decimals(inp[2], inp[3])
    /\ UNCHANGED <<program, inp>>

\* set_decimals chained: to the target and back to the decimals the Number
\* had, and to the target twice.
SetDecimalsTwice ==
    /\ fn = "none" /\ inp[1] = "rescale"
    /\ fn' = "set_decimals_twice"
    /\ LET a == inp[2]
           target == inp[3]
           once == Number_set_decimals(a, target).self
       IN  out' = [once |-> once,
                   back |-> Number_set_decimals(once, a.decimals).self,
                   twice |-> Number_set_decimals(once, target).self]
    /\ UNCHANGED <<program, inp>>

\* (mutation) broadcast_mul without its deepcopy: the receiver's own fields
\* are multiplied
LongShortNumbers_broadcast_mul_inplace(a, price) ==
    Called(Return(broadcast_mul(a, price)), broadcast_mul(a, price), price)

\* LongShortNumbers.broadcast_mul: `copy = self.deepcopy()`, the three
\* products made on the copy, the copy returned
LongShortNumbers_broadcast_mul(a, price) ==
    Called(Return(broadcast_mul(a, price)), a, price)

\* A position priced as get_priced_positions / get_priced_report price it:
\* `PricedPosition(amount=positions[symbol],
\*                 value=positions[symbol].broadcast_mul(prices[symbol]))`
BroadcastMulCall ==
    /\ fn = "none" /\ inp[1] = "position"
    /\ fn' = "broadcast_mul"
    /\ LET called == LongShortNumbers_broadcast_mul(inp[2], inp[3])
       IN  out' = [ret |-> called.ret, self |-> called.self, other |-> called.other,
                   priced |-> PricedPosition(called.self, called.ret.val)]
    /\ UNCHANGED <<program, inp>>

\* The ledgers as Python holds them: a dict maps a symbol to a reference, the
\* heap maps a reference to the LongShortNumbers object it denotes.  The
\* object of ledger `name` under symbol s is <<name, s>>.
Refs(name, L) == [s \in DOMAIN L |-> <<name, s>>]
\* The ledger a dict of references denotes in a heap.
Deref(H, D) == [s \in DOMAIN D |-> H[D[s]]]

\* (mutation) `self[symbol] += amount` on an entry the dict has, and
\* `self[symbol] = amount` on one it has not: the entry object is changed in
\* place, or shared with the other dict
PositionsDict_iadd_inplace(H, D, O, tag) ==
    [dict |-> [s \in DOMAIN D \cup DOMAIN O |->
                  IF s \in DOMAIN D THEN D[s] ELSE O[s]],
     heap |-> [r \in DOMAIN H |->
                  IF \E s \in DOMAIN D \cap DOMAIN O : D[s] = r
                  THEN LSNAdd(H[r], H[O[r[2]]])
                  ELSE H[r]]]

\* PositionsDict.__iadd__, `self[symbol] = self.get(symbol) + amount`:
\* LongShortNumbers.__add__ adds into a deep copy of its receiver, so every
\* symbol of the other dict gets a new object (named by `tag`), and the
\* objects the two dicts held are read only.
PositionsDict_iadd(H, D, O, tag) ==
    [dict |-> [s \in DOMAIN D \cup DOMAIN O |->
                  IF s \in DOMAIN O THEN <<tag, s>> ELSE D[s]],
     heap |-> [r \in DOMAIN H \cup {<<tag, s>> : s \in DOMAIN O} |->
                  IF r[1] = tag
                  THEN LSNAdd(IF r[2] \in DOMAIN D THEN H[D[r[2]]] ELSE LSNZero,
                              H[O[r[2]]])
                  ELSE H[r]]]

\* PositionsDict.__add__: `copy = PositionsDict(self)` is a new dict of the
\* same objects; `copy += other`
PositionsDict_add(H, D, O, tag) == PositionsDict_iadd(H, D, O, tag)

\* X + Y; a resolver's update_positions(X), update_positions(Y); and the fold
\* of get_chain_report_async over the holdings X and the reports Y and Z:
\* `total = PositionsDict() + holdings`, `total += report.positions`.  What
\* each returns, and X, Y and Z as they are afterwards.
MergeOnHeap ==
    /\ fn = "none" /\ inp[1] = "ledgers"
    /\ fn' = "merge_on_heap"
    /\ LET X == inp[2]
           Y == inp[3]
           Z == inp[4]
           H == [r \in {<<"X", s>> : s \in DOMAIN X} \cup {<<"Y", s>> : s \in DOMAIN Y}
                        \cup {<<"Z", s>> : s \in DOMAIN Z} |->
                    IF r[1] = "X" THEN X[r[2]]
                    ELSE IF r[1] = "Y" THEN Y[r[2]] ELSE Z[r[2]]]
           sum == PositionsDict_add(H, Refs("X", X), Refs("Y", Y), "X+Y")
           reg1 == PositionsDict_iadd(H, EmptyDict, Refs("X", X), "p1")
           reg2 == PositionsDict_iadd(reg1.heap, reg1.dict, Refs("Y", Y), "p2")
           tot0 == PositionsDict_add(H, EmptyDict, Refs("X", X), "t0")
           tot1 == PositionsDict_iadd(tot0.heap, tot0.dict, Refs("Y", Y), "t1")
           tot2 == PositionsDict_iadd(tot1.heap, tot1.dict, Refs("Z", Z), "t2")
           After(h) == [x |-> Deref(h, Refs("X", X)), y |-> Deref(h, Refs("Y", Y)),
                        z |-> Deref(h, Refs("Z", Z))]
       IN  out' = [sum |-> Deref(sum.heap, sum.dict),
                   after_sum |-> After(sum.heap),
                   positions |-> Deref(reg2.heap, reg2.dict),
                   after_update |-> After(reg2.heap),
                   total |-> Deref(tot2.heap, tot2.dict),
                   after_fold |-> After(tot2.heap),
                   shared |-> {s \in DOMAIN tot2.dict :
                                  tot2.dict[s][1] \in {"X", "Y", "Z"}}]
    /\ UNCHANGED <<program, inp>>

AlgebraNext ==
    \/ MergeOnHeap
    \/ BroadcastMulCall
    \/ SetDecimalsCall
    \/ SetDecimalsTwice
    \/ NumberAddCall
    \/ NumberSubCall
    \/ NumberMulCall
    \/ NumberFloorDivCall
    \/ MergeLedgers
    \/ MergePricedLedgers

AlgebraSpec == AlgebraInit /\ [][AlgebraNext]_vars

\* ------------------------------------------- lib/shortest_path_resolver.py
NodeNames == <<"A", "B", "C", "D", "E">>
Nodes == {NodeNames[i] : i \in 1..NumNodes}
\* `nodes` and the values of `adj_list` are sets of str: a set is iterated in
\* the order of its table slots, which the strings' hashes give, and these
\* change with the interpreter's hash seed.  `order` is the order of the
\* nodes' slots in one run; every set of the run iterates in that order.
\* `edges` holds each undirected edge between two distinct nodes once.
Graphs ==
    [edges : SUBSET {e \in Nodes \X Nodes :
                        \E i, j \in 1..NumNodes :
                            i < j /\ e = <<NodeNames[i], NodeNames[j]>>},
     order : {o \in [1..NumNodes -> Nodes] :
                 \A i, j \in 1..NumNodes : o[i] = o[j] => i = j}]
Iterate(order, S) == SelectSeq(order, LAMBDA n : n \in S)

\* Python's None, the value of get for a pair it has no path for
None == <<>>

\* ShortestPathResolver.get: the path recorded for (src, dst), else the path
\* recorded for (dst, src) as it was recorded, else None
get(shortest_paths, src, dst) ==
    IF <<src, dst>> \in DOMAIN shortest_paths THEN shortest_paths[<<src, dst>>]
    ELSE IF <<dst, src>> \in DOMAIN shortest_paths THEN shortest_paths[<<dst, src>>]
    ELSE None

\* nodes and adj_list of __resolve
NodesOf(edges) == {e[1] : e \in edges} \cup {e[2] : e \in edges}
adj_list(edges, n) ==
    {e[2] : e \in {f \in edges : f[1] = n}} \cup {e[1] : e \in {f \in edges : f[2] = n}}

\* `for i, src in enumerate(current_path)` from index i on (1-based here)
RECURSIVE VisitSources(_, _, _, _)
VisitSources(st, current_path, dst, i) ==
    IF i > Len(current_path) THEN st
    ELSE LET src == current_path[i]
             path_found == Append(SubSeq(current_path, i, Len(current_path)), dst)
         IN  IF src = dst \/ get(st.shortest_paths, src, dst) # None
             THEN VisitSources(st, current_path, dst, i + 1)
             ELSE VisitSources(
                      [shortest_paths |-> (<<src, dst>> :> path_found) @@ st.shortest_paths,
                       queue |-> IF i = 1 THEN Append(st.queue, path_found)
                                 ELSE st.queue],
                      current_path, dst, i + 1)

\* `for dst in adj_list[current_path[-1]]` over the neighbours left
RECURSIVE VisitNeighbours(_, _, _)
VisitNeighbours(st, current_path, dsts) ==
    IF dsts = <<>> THEN st
    ELSE VisitNeighbours(VisitSources(st, current_path, Head(dsts), 1),
                         current_path, Tail(dsts))

\* ShortestPathResolver(edges) up to the loop: no path recorded, the queue
\* holds one path [src] per node
ResolverNew ==
    /\ fn = "none"
    /\ fn' = "__resolve"
    /\ out' = [shortest_paths |-> <<>>,
               queue |-> [k \in 1..Cardinality(NodesOf(inp.edges)) |->
                             <<Iterate(inp.order, NodesOf(inp.edges))[k]>>]]
    /\ UNCHANGED <<program, inp>>

\* one turn of `while queue`
ResolvePop ==
    /\ fn = "__resolve" /\ out.queue # <<>>
    /\ LET current_path == Head(out.queue)
           last == current_path[Len(current_path)]
       IN  out' = VisitNeighbours([shortest_paths |-> out.shortest_paths,
                                   queue |-> Tail(out.queue)],
                                  current_path,
                                  Iterate(inp.order, adj_list(inp.edges, last)))
    /\ UNCHANGED <<program, fn, inp>>

\* path_resolver.get(src, dst) on the resolver constructed
GetPath(src, dst) ==
    /\ fn = "__resolve" /\ out.queue = <<>>
    /\ fn' = "get"
    /\ out' = [shortest_paths |-> out.shortest_paths, src |-> src, dst |-> dst,
               ret |-> get(out.shortest_paths, src, dst)]
    /\ UNCHANGED <<program, inp>>

PathInit ==
    /\ ProgramInit
    /\ AggregatorInitOk(tokens)
    /\ \A t \in Tokens : tokens[t].pricing.id = "chainlink"
    /\ fn = "none" /\ out = <<>>
    /\ inp \in Graphs

PathNext ==
    \/ ResolverNew
    \/ ResolvePop
    \/ \E src, dst \in Nodes : GetPath(src, dst)

PathSpec == PathInit /\ [][PathNext]_vars

\* ------------------------------------------------------------------ claims
\* C1: while fewer than num_coroutines update_positions calls have happened,
\* no get_price has been called and no task is recorded: every resolve_price
\* coroutine is still scheduled or suspended at the barrier.
C1_NoPriceBeforeAllRegistered ==
    counter < num_coroutines =>
        /\ DOMAIN tasks = {}
        /\ \A s \in Symbols : calls[s] = 0
        /\ \A p \in Producers, s \in Symbols :
              req[p][s].st \in {"none", "ready", "barrier"}

\* a requester suspended at the barrier after a contributor has registered
C1_Witness ==
    /\ 0 < counter /\ counter < num_coroutines
    /\ \E p \in Producers, s \in Symbols : req[p][s].st = "barrier"

\* C2: get_price is called at most once per symbol, exactly once for a symbol
\* with a recorded task, and every resolve_price that returned (from a
\* producer or from inside another get_price) returned that task's result.
C2_OneComputationPerSymbol ==
    /\ \A s \in Symbols : calls[s] <= 1 /\ (calls[s] = 1 <=> s \in DOMAIN tasks)
    /\ \A p \in Producers, s \in Symbols :
          /\ req[p][s].st = "awaiting" => s \in DOMAIN tasks
          /\ req[p][s].st = "returned" =>
                tasks[s].st = "done" /\ req[p][s].val = tasks[s].val
    /\ \A t \in Tokens :
          sub[t].st = "returned" =>
                tasks[Quote(t)].st = "done" /\ sub[t].val = tasks[Quote(t)].val
    /\ \A s \in DOMAIN results : tasks[s].st = "done" /\ results[s] = tasks[s].val

\* three awaiters of one symbol (two producers and another symbol's price
\* source) have all returned, after a single get_price call
C2_Witness ==
    \E s \in Tokens :
        /\ calls[s] = 1
        /\ req[Holdings][s].st = "returned"
        /\ \E p \in Protocols : req[p][s].st = "returned"
        /\ \E t \in Tokens : Quote(t) = s /\ t # s /\ sub[t].st = "returned"

\* The circular configuration: A's price reader awaits resolve_price(B) and
\* B's price reader awaits resolve_price(A).
Cyclic ==
    /\ \A s \in Tokens : tokens[s].pricing.id = "pancakeswap"
    /\ Quote("A") = "B" /\ Quote("B") = "A"

\* C3: with the circular configuration, every resolve_price on A or B made
\* once the barrier is open fails with the timeout error no later than its
\* deadline, TIMEOUT after it began to wait: none returns a price, none is
\* still waiting after its deadline, none fails with another error.
C3_CycleFailsWithTimeout ==
    Cyclic =>
        \A p \in Producers, s \in Tokens :
            /\ req[p][s].st # "returned"
            /\ req[p][s].st = "awaiting" => now <= req[p][s].deadline
            /\ req[p][s].st = "raised" => req[p][s].exc = "TimeoutError"

\* The componentwise sum of a symbol's entries over the producers' ledgers,
\* taken in the fixed order 0, 1, .. n whatever the order of registration.
RECURSIVE SumLedgers(_, _)
SumLedgers(symbol, n) ==
    LET entry == PositionsGet(ledger[n], symbol)
    IN  IF n = Holdings THEN entry ELSE LSNAdd(SumLedgers(symbol, n - 1), entry)

\* C4: the position handed to get_price for a symbol is the componentwise sum
\* of the symbol's entries over the ledgers of all the producers, in whatever
\* order they registered and the requests ran; and the price a finished
\* get_price returned is the one its reader computes from that sum, the
\* quote's one price and the chain's answer.
C4_PositionIsSumOfLedgers ==
    \A s \in DOMAIN tasks :
        /\ tasks[s].pos = SumLedgers(s, NumProtocols)
        /\ tasks[s].st = "done" =>
              \E answer \in ChainlinkAnswers(s), reserves \in PairReserves :
                 tasks[s].val =
                    IF price_readers[s] = "chainlink" THEN ChainlinkPrice(answer)
                    ELSE PancakePrice(tokens, s, SumLedgers(s, NumProtocols),
                                      tasks[Quote(s)].val, reserves).val

\* a price was computed for a symbol that the holdings reader and a protocol
\* reader both hold
C4_Witness ==
    \E s \in DOMAIN tasks :
        /\ tasks[s].st = "done"
        /\ s \in DOMAIN ledger[Holdings]
        /\ \E p \in Protocols : s \in DOMAIN ledger[p]

\* C5: a priced chain report is returned only when every resolve_price of
\* every producer returned, and then each position is valued with the price
\* its symbol's get_price returned; once a resolve_price has failed, by the
\* deadline or by the price reader's error, no report is returned, and when
\* the loop has nothing left to run the request has raised.
C5_NoPartialReport ==
    call.op = "priced" =>
        /\ call.st = "returned" =>
              \A p \in Producers : \A s \in DOMAIN ledger[p] :
                  /\ req[p][s].st = "returned"
                  /\ tasks[s].st = "done"
                  /\ priced[p][s].amount = ledger[p][s]
                  /\ priced[p][s].value = broadcast_mul(ledger[p][s], tasks[s].val)
        /\ (\E p \in Producers, s \in Symbols : req[p][s].st = "raised") =>
              /\ call.st # "returned"
              /\ report = <<>>
              /\ ~LoopBusy => call.st = "raised"

\* the request has raised although one producer's prices all resolved
C5_Witness ==
    /\ call.op = "priced" /\ call.st = "raised"
    /\ \E p \in Producers :
          /\ DOMAIN ledger[p] # {}
          /\ \A s \in DOMAIN ledger[p] : req[p][s].st = "returned"
    /\ \E p \in Producers, s \in DOMAIN tasks :
          req[p][s].st = "raised" /\ tasks[s].st = "error"

\* C6: when a symbol's get_price ends with an exception, every resolve_price
\* awaiting it (a producer's, or the one inside another symbol's get_price
\* unless that get_price was itself cancelled meanwhile) raises that same
\* exception, none returns and none reports a timeout; and
\* the clock does not advance while such an awaiter is still suspended: the
\* loop resumes it before it sleeps, without waiting for the deadline.
C6_ErrorDeliveredDirectly ==
    /\ [](\A s \in DOMAIN tasks :
            tasks[s].st = "error" =>
               /\ \A p \in Producers :
                     /\ req[p][s].st \in {"none", "ready", "awaiting", "raised"}
                     /\ req[p][s].st = "raised" => req[p][s].exc = tasks[s].exc
               /\ \A t \in Tokens :
                     (t \in DOMAIN tasks /\ price_readers[t] = "pancakeswap"
                        /\ Quote(t) = s /\ sub[t].st \notin {"none", "awaiting"}
                        /\ tasks[t].st # "cancelled") =>
                           /\ sub[t].st = "raised" /\ sub[t].exc = tasks[s].exc
                           /\ tasks[t].st = "error" /\ tasks[t].exc = tasks[s].exc)
    /\ [][(\E s \in DOMAIN tasks :
              /\ tasks[s].st = "error"
              /\ \/ \E p \in Producers : req[p][s].st = "awaiting"
                 \/ \E t \in Tokens : sub[t].st = "awaiting" /\ Quote(t) = s)
          => now' = now]_vars

\* two producers awaiting one symbol both raised the ZeroDivisionError of its
\* get_price, before any deadline
C6_Witness ==
    \E s \in DOMAIN tasks :
        /\ tasks[s].st = "error" /\ tasks[s].exc = "ZeroDivisionError"
        /\ \A p \in Producers :
              req[p][s].st = "raised" /\ req[p][s].exc = "ZeroDivisionError"
        /\ now = 0

\* C7: a resolve_price for a symbol without a price reader raises KeyError in
\* the very step it runs with the barrier open: it never suspends in
\* wait_for (no timer is armed, the clock does not advance before it fails),
\* get_price is never called for the symbol, no task is recorded for it, and
\* the failure is final.  The same holds for the resolve_price a get_price
\* makes for an unknown quote.  A pricing id without a registered reader
\* fails earlier still: the aggregator's constructor raises and no request
\* can be made.
C7_UnknownSymbolFailsAtOnce ==
    /\ [](\A s \in Symbols \ DOMAIN price_readers :
            /\ s \notin DOMAIN tasks
            /\ calls[s] = 0
            /\ \A p \in Producers :
                  /\ req[p][s].st \in {"none", "ready", "barrier", "raised"}
                  /\ req[p][s].st = "raised" =>
                        req[p][s].exc = "KeyError" /\ req[p][s].deadline = 0
            /\ \A t \in DOMAIN tasks :
                  (t \in Tokens /\ price_readers[t] = "pancakeswap" /\ Quote(t) = s) =>
                      /\ sub[t].st \in {"none", "raised"}
                      /\ sub[t].st = "raised" =>
                            sub[t].exc = "KeyError" /\ sub[t].deadline = 0)
    /\ [](~constructed =>
            /\ call.st = "idle"
            /\ DOMAIN tasks = {}
            /\ \A p \in Producers : pc[p] = "idle")
    /\ [][\A p \in Producers : \A s \in Symbols \ DOMAIN price_readers :
            /\ (req[p][s].st = "ready" /\ is_ready_to_fetch_prices) =>
                  /\ now' = now
                  /\ req'[p][s].st \in {"ready", "raised"}
            /\ req[p][s].st = "raised" => req'[p][s] = req[p][s]]_vars

\* a producer's resolve_price of the symbol without a reader has raised
\* KeyError while a get_price quoting that symbol failed on it as well
C7_Witness ==
    /\ \E p \in Producers :
          req[p][Unlisted].st = "raised" /\ req[p][Unlisted].exc = "KeyError"
    /\ \E t \in DOMAIN tasks :
          Quote(t) = Unlisted /\ sub[t].st = "raised" /\ tasks[t].exc = "KeyError"
    /\ now = 0

\* C8: the counter changes only by a call of update_positions, which adds
\* exactly one to it and merges the caller's ledger, symbol by symbol, into
\* the resolver's positions; the event is set by the call that makes the
\* counter equal to num_coroutines and by no earlier one; the counter never
\* decreases and the event, once set, stays set.  (The caller is a producer
\* of a priced report, or convert_units registering an empty ledger with the
\* resolver it has just made.)
C8_UpdatePositions ==
    /\ [](call.op \in {"priced", "convert"} =>
            (is_ready_to_fetch_prices <=> counter = num_coroutines))
    /\ [][/\ counter' >= counter
          /\ is_ready_to_fetch_prices => is_ready_to_fetch_prices'
          /\ (~is_ready_to_fetch_prices /\ is_ready_to_fetch_prices') =>
                counter' = num_coroutines' /\ counter = num_coroutines' - 1
          /\ counter' # counter =>
                /\ counter' = counter + 1
                /\ is_ready_to_fetch_prices' = (counter' = num_coroutines')
                /\ \/ \E p \in Producers :
                         /\ pc[p] = "fetch" /\ pc'[p] # "fetch"
                         /\ DOMAIN positions' = DOMAIN positions \cup DOMAIN ledger'[p]
                         /\ \A s \in Symbols :
                               PositionsGet(positions', s) =
                                  LSNAdd(PositionsGet(positions, s),
                                         PositionsGet(ledger'[p], s))
                   \/ /\ call.st = "idle" /\ call'.op = "convert"
                      /\ positions' = positions
          /\ counter' = counter => positions' = positions]_vars

\* every producer has registered, the event is set, and the positions hold
\* a symbol that two producers contributed
C8_Witness ==
    /\ is_ready_to_fetch_prices
    /\ counter = num_coroutines /\ counter >= 2
    /\ \E s \in DOMAIN positions :
          /\ s \in DOMAIN ledger[Holdings]
          /\ \E p \in Protocols : s \in DOMAIN ledger[p]

\* The producers that have called update_positions: those awaiting their
\* prices, those that returned, and those that failed on a price.
HasRegistered(p) ==
    \/ pc[p] \in {"resolving", "done"}
    \/ pc[p] = "failed" /\ \E s \in Symbols : req[p][s].st = "raised"

\* C9: in a priced chain report the resolver's num_coroutines is one more
\* than the number of protocol readers; the counter is the number of
\* producers that have registered, each of them once; a producer has no
\* resolve_price before it has registered; the event is set exactly when
\* every producer has registered, and a returned report finds the counter
\* equal to num_coroutines.
C9_OneResolverPerRequest ==
    call.op = "priced" =>
        /\ num_coroutines = 1 + NumProtocols
        /\ num_coroutines = Cardinality(Producers)
        /\ counter = Cardinality({p \in Producers : HasRegistered(p)})
        /\ \A p \in Producers :
              (\E s \in Symbols : req[p][s].st # "none") => HasRegistered(p)
        /\ is_ready_to_fetch_prices <=> \A p \in Producers : HasRegistered(p)
        /\ call.st = "returned" =>
              counter = num_coroutines /\ is_ready_to_fetch_prices

\* a priced report was returned after the holdings reader and a protocol
\* reader registered with the one resolver
C9_Witness ==
    /\ call.op = "priced" /\ call.st = "returned"
    /\ counter = NumProtocols + 1
    /\ \E p \in Protocols : DOMAIN ledger[p] # {} /\ pc[p] = "done"

\* C10: in the unpriced and in the priced chain report alike the holdings
\* reader and the protocol readers run concurrently: while the holdings
\* reader is reading, every protocol reader has been started, and while a
\* protocol reader is reading, the holdings reader has been started.
C10_ReadersRunConcurrently ==
    call.st = "running" =>
        /\ pc[Holdings] = "fetch" => \A p \in Protocols : pc[p] # "idle"
        /\ (\E p \in Protocols : pc[p] = "fetch") => pc[Holdings] # "idle"

\* C11: when the deadline of a resolve_price elapses while its task is still
\* running, the caller is raised a timeout error whose arguments name the
\* symbol it asked for.
C11_TimeoutNamesSymbol ==
    [][\A p \in Producers, s \in Symbols :
          (/\ req[p][s].st = "awaiting" /\ Expired(req[p][s])
           /\ tasks[s].st \in Running
           /\ req'[p][s].st = "raised") =>
              /\ req'[p][s].exc = "TimeoutError"
              /\ req'[p][s].args = <<s>>]_vars

\* C12: once every resolve_price of a producer has returned, resolve_prices
\* gives a mapping whose keys are exactly the symbols asked for, each mapped
\* to the price resolve_price returned for that symbol, in whatever order
\* the resolve_price calls returned.
C12_ResolvePricesMapping ==
    \A p \in Producers :
        (pc[p] = "resolving" /\ GatherReturns(p)) =>
            LET prices == resolve_prices(p, Keys(ledger[p]))
            IN  /\ DOMAIN prices = DOMAIN ledger[p]
                /\ \A s \in DOMAIN prices :
                      prices[s] = req[p][s].val /\ prices[s] = tasks[s].val

\* two resolve_price calls of one producer returned in the order opposite to
\* the one they were requested in, with different prices
C12_Witness ==
    \E p \in Producers :
        /\ pc[p] = "resolving" /\ GatherReturns(p)
        /\ Keys(ledger[p]) = <<"A", "B">>
        /\ completed[p] = <<"B", "A">>
        /\ req[p]["A"].val # req[p]["B"].val

\* C13: merging Position Ledgers is associative, (X+Y)+Z = X+(Y+Z), and the
\* empty ledger is its identity on either side, X + {} = X = {} + X, every
\* entry's net, long and short compared by value and decimals.
C13_MergeAssociativeWithIdentity ==
    fn = "merge" =>
        /\ out.xy_z = out.x_yz
        /\ out.x_e = inp[2]
        /\ out.e_x = inp[2]

\* three ledgers that all hold A, with entries of different decimals, merged
C13_Witness ==
    /\ fn = "merge"
    /\ \A i \in 2..4 : "A" \in DOMAIN inp[i]
    /\ inp[2]["A"].net.decimals # inp[3]["A"].net.decimals
    /\ inp[4]["A"].net.value < 0
    /\ out.xy_z["A"].net # inp[2]["A"].net

\* C14: merging two Position Ledgers, and likewise two Priced Position
\* Ledgers, is commutative: X + Y = Y + X, every symbol's net, long and
\* short equal in value and in decimals.
C14_MergeCommutative ==
    /\ fn = "merge" => out.xy = out.yx
    /\ fn = "merge_priced" => out.pq = out.qp

\* two ledgers that hold A with entries of different decimals, merged
C14_Witness ==
    /\ fn = "merge"
    /\ "A" \in DOMAIN inp[2] /\ "A" \in DOMAIN inp[3]
    /\ inp[2]["A"].long.decimals < inp[3]["A"].long.decimals
    /\ out.xy["A"].long.decimals = inp[3]["A"].long.decimals
    /\ out.xy["A"] # inp[2]["A"] /\ out.xy["A"] # inp[3]["A"]

\* C15: the merge of two Priced Position Ledgers holds exactly the symbols of
\* the two; a symbol of both has the sum of the two amounts as its amount and
\* the sum of the two values as its value (amount 10 / value 20 with amount
\* 5 / value 10 gives amount 15 / value 30); a symbol of only one is carried
\* over unchanged.
C15_PricedMerge ==
    fn = "merge_priced" =>
        LET P == inp[2]
            Q == inp[3]
        IN  /\ DOMAIN out.pq = DOMAIN P \cup DOMAIN Q
            /\ \A s \in DOMAIN P \cap DOMAIN Q :
                  /\ out.pq[s].amount = LSNAdd(P[s].amount, Q[s].amount)
                  /\ out.pq[s].value = LSNAdd(P[s].value, Q[s].value)
            /\ \A s \in DOMAIN P \ DOMAIN Q : out.pq[s] = P[s]
            /\ \A s \in DOMAIN Q \ DOMAIN P : out.pq[s] = Q[s]
            /\ ("A" \in DOMAIN P \cap DOMAIN Q
                  /\ P["A"].amount.net = Num(10, 0) /\ P["A"].value.net = Num(20, 0)
                  /\ Q["A"].amount.net = Num(5, 0) /\ Q["A"].value.net = Num(10, 0)) =>
                  /\ out.pq["A"].amount.net = Num(15, 0)
                  /\ out.pq["A"].value.net = Num(30, 0)

\* amount 10 / value 20 merged with amount 5 / value 10, beside a symbol
\* that only the first ledger holds
C15_Witness ==
    /\ fn = "merge_priced"
    /\ DOMAIN inp[2] = {"A", "B"} /\ DOMAIN inp[3] = {"A"}
    /\ inp[2]["A"].amount.net = Num(10, 0) /\ inp[3]["A"].amount.net = Num(5, 0)
    /\ out.pq["A"].value.long = Num(30, 0)
    /\ out.pq["B"] = inp[2]["B"]

\* The componentwise sum of a symbol's entries over the producers' ledgers,
\* taken in the opposite order, n, .. 1, 0.
RECURSIVE SumLedgersDown(_, _)
SumLedgersDown(symbol, n) ==
    LET entry == PositionsGet(ledger[n], symbol)
    IN  IF n = NumProtocols THEN entry ELSE LSNAdd(SumLedgersDown(symbol, n + 1), entry)

\* The sum of the values a symbol was priced at over the producers holding it.
RECURSIVE SumPricedValues(_, _)
SumPricedValues(symbol, n) ==
    LET value == IF symbol \in DOMAIN priced[n] THEN priced[n][symbol].value
                 ELSE LSNZero
    IN  IF n = Holdings THEN value ELSE LSNAdd(SumPricedValues(symbol, n - 1), value)

C17_ConvertUnits ==
    call.op = "convert" =>
        /\ num_coroutines = 1 /\ counter = 1 /\ is_ready_to_fetch_prices
        /\ positions = EmptyDict
        /\ call.st = "returned" =>
              LET amount == call.args[1]
                  from_price == tasks[call.args[2]].val
                  to_price == tasks[call.args[3]].val
              IN  /\ \A s \in {call.args[2], call.args[3]} :
                        /\ tasks[s].st = "done" /\ tasks[s].pos = LSNZero
                        /\ calls[s] = 1
                        /\ req[Caller][s].val = tasks[s].val
                  /\ report = NumberFloorDiv(NumberMul(amount, from_price), to_price)
                  /\ report.decimals = amount.decimals
                  /\ (/\ amount = Num(100, 0)
                      /\ from_price = Num(200, PRICE_DECIMALS)
                      /\ to_price = Num(400, PRICE_DECIMALS)) => report = Num(50, 0)

\* 100 units of A, priced 2.00, were converted to 50 units of B, priced 4.00
C17_Witness ==
    /\ call.op = "convert" /\ call.st = "returned"
    /\ call.args = <<Num(100, 0), "A", "B">>
    /\ tasks["A"].val = Num(200, PRICE_DECIMALS)
    /\ tasks["B"].val = Num(400, PRICE_DECIMALS)
    /\ report = Num(50, 0)

\* C18: a + b and a - b have the larger of the two decimals, and their value
\* is exactly the sum (the difference) of the two values scaled up to those
\* decimals: nothing is scaled down, nothing is rounded.
C18_AddSubExact ==
    fn \in {"add", "sub"} =>
        LET a == inp[2]
            b == inp[3]
            d == IF a.decimals >= b.decimals THEN a.decimals ELSE b.decimals
            scaled_a == a.value * Pow10(d - a.decimals)
            scaled_b == b.value * Pow10(d - b.decimals)
        IN  /\ out.ret.ok
            /\ out.ret.val.decimals = d
            /\ out.ret.val.decimals >= a.decimals
            /\ out.ret.val.decimals >= b.decimals
            /\ out.ret.val.value =
                  IF fn = "add" THEN scaled_a + scaled_b ELSE scaled_a - scaled_b

\* a Number whose last digit would be lost at the decimals of the other was
\* subtracted from it
C18_Witness ==
    /\ fn = "sub"
    /\ inp[2].decimals < inp[3].decimals
    /\ inp[2].value # 0
    /\ inp[3].value % 10 # 0
    /\ out.ret.val.decimals = inp[3].decimals

\* C19: a * b has the decimals of a, and its value is the floor of
\* a.value * b.value / 10^b.decimals: the largest integer not above the
\* quotient, for a negative product as well.
C19_MulFloors ==
    fn = "mul" =>
        LET a == inp[2]
            b == inp[3]
            v == out.ret.val.value
        IN  /\ out.ret.ok
            /\ out.ret.val.decimals = a.decimals
            /\ v * Pow10(b.decimals) <= a.value * b.value
            /\ a.value * b.value < (v + 1) * Pow10(b.decimals)

\* a negative product that is not a multiple of 10^b.decimals, of operands
\* of different decimals
C19_Witness ==
    /\ fn = "mul"
    /\ inp[2].value * inp[3].value < 0
    /\ (inp[2].value * inp[3].value) % Pow10(inp[3].decimals) # 0
    /\ inp[2].decimals # inp[3].decimals
    /\ out.ret.val.value < 0

\* C20: a // b with b.value # 0 has the decimals of a, and its value is the
\* floor of a.value * 10^b.decimals / b.value; with b.value = 0 it raises
\* ZeroDivisionError and returns nothing; a and b are what they were.
C20_FloorDiv ==
    fn = "floordiv" =>
        LET a == inp[2]
            b == inp[3]
            n == a.value * Pow10(b.decimals)
            v == out.ret.val.value
        IN  /\ out.self = a /\ out.other = b
            /\ b.value = 0 => ~out.ret.ok /\ out.ret.exc = "ZeroDivisionError"
            /\ b.value # 0 => out.ret.ok /\ out.ret.val.decimals = a.decimals
            /\ b.value > 0 => v * b.value <= n /\ n < (v + 1) * b.value
            /\ b.value < 0 => v * b.value >= n /\ n > (v + 1) * b.value

\* a Number that is not zero was divided by a Number whose value is zero
C20_Witness ==
    /\ fn = "floordiv"
    /\ inp[3].value = 0 /\ inp[2].value # 0
    /\ ~out.ret.ok

\* C21: set_decimals(target) leaves the Number at the target decimals; from
\* more decimals (or as many) its value becomes the integer nearest to
\* value / 10^(decimals - target), the even one of the two when it is half
\* way between them, whatever the sign; from fewer decimals its value is
\* multiplied by 10^(target - decimals).
C21_SetDecimals ==
    fn = "set_decimals" =>
        LET a == inp[2]
            target == inp[3]
            r == out.self
            m == Pow10(a.decimals - target)
            diff == a.value - r.value * m
        IN  /\ out.ret.ok /\ out.ret.val = r
            /\ r.decimals = target
            /\ a.decimals >= target =>
                  /\ 2 * diff <= m /\ 2 * diff >= 0 - m
                  /\ (2 * diff = m \/ 2 * diff = 0 - m) => r.value % 2 = 0
            /\ a.decimals < target =>
                  r.value = a.value * Pow10(target - a.decimals)

\* a negative value half way between two quotients was rounded to the even
\* one, which is the one further from zero
C21_Witness ==
    /\ fn = "set_decimals"
    /\ inp[2].value < 0 /\ inp[2].decimals = inp[3] + 1
    /\ inp[2].value % 10 = 5
    /\ out.self.value * 10 < inp[2].value
    /\ out.self.value % 2 = 0

\* C22: raising the decimals of a Number and setting them back restores its
\* value and decimals; set_decimals to the same target a second time changes
\* nothing, and set_decimals to the decimals a Number has changes nothing.
C22_SetDecimalsRoundTrip ==
    /\ fn = "set_decimals_twice" =>
          /\ inp[3] >= inp[2].decimals => out.back = inp[2]
          /\ out.twice = out.once
          /\ inp[3] = inp[2].decimals => out.once = inp[2]
    /\ (fn = "set_decimals" /\ inp[3] = inp[2].decimals) => out.self = inp[2]

\* a Number that is not zero was raised by two decimals and set back
C22_Witness ==
    /\ fn = "set_decimals_twice"
    /\ inp[3] = inp[2].decimals + 2 /\ inp[2].value # 0
    /\ out.once.value = inp[2].value * 100
    /\ out.back = inp[2]

\* C23: broadcast_mul(price) returns a LongShortNumbers whose net, long and
\* short are the receiver's net, long and short each multiplied by the price
\* as Number.__mul__ multiplies; the receiver and the price are what they
\* were, and the PricedPosition built from the receiver and the product
\* holds the receiver's amount unaltered.
C23_BroadcastMul ==
    fn = "broadcast_mul" =>
        LET a == inp[2]
            price == inp[3]
        IN  /\ out.ret.ok
            /\ out.ret.val.net = NumberMul(a.net, price)
            /\ out.ret.val.long = NumberMul(a.long, price)
            /\ out.ret.val.short = NumberMul(a.short, price)
            /\ out.self = a /\ out.other = price
            /\ out.priced.amount = a
            /\ out.priced.value = out.ret.val

\* a position with a short side was priced, and its value is not its amount
C23_Witness ==
    /\ fn = "broadcast_mul"
    /\ inp[2].short.value # 0
    /\ out.ret.val.net.value < inp[2].net.value
    /\ out.priced.amount = inp[2]
    /\ out.priced.value # out.priced.amount

\* C24: reading the position of a symbol that the resolver's positions do not
\* hold gives the zero position and leaves the positions as they are: they
\* hold the symbols the registered producers contributed and no other, a
\* get_price called for a symbol they do not hold was given the zero
\* position, and a resolve_price of such a symbol that has a price reader
\* goes on to await its task instead of raising.
C24_AbsentSymbolIsZero ==
    /\ [](/\ DOMAIN positions \subseteq UNION { DOMAIN ledger[p] : p \in Producers }
          /\ \A s \in DOMAIN tasks :
                s \notin DOMAIN positions => tasks[s].pos = LSNZero)
    /\ [][/\ DOMAIN tasks' # DOMAIN tasks => positions' = positions
          /\ \A s \in DOMAIN tasks' \ DOMAIN tasks :
                s \notin DOMAIN positions =>
                   /\ PositionsGet(positions, s) = LSNZero
                   /\ tasks'[s].st = "new"
                   /\ \A p \in Requesters :
                         req[p][s].st = "ready" => req'[p][s].st \in {"ready", "awaiting"}]_vars

\* the price of a quote that no contributor holds was computed for the zero
\* position at the request of another symbol's price reader alone
C24_Witness ==
    \E t \in DOMAIN tasks :
        /\ Quote(t) # t /\ sub[t].st = "returned"
        /\ Quote(t) \notin DOMAIN positions
        /\ tasks[Quote(t)].st = "done" /\ tasks[Quote(t)].pos = LSNZero
        /\ \A p \in Requesters : req[p][Quote(t)].st = "none"

\* C25: while fewer than num_coroutines positions have been registered, and
\* always when num_coroutines is 0, the event is not set; while it is not
\* set no get_price task exists and no wait_for timer is armed, every
\* resolve_price is scheduled or suspended on the event and none has raised;
\* and a coroutine suspended on the event stays so through every step that
\* leaves the event unset.
C25_BarrierHasNoDeadline ==
    /\ []((counter < num_coroutines \/ num_coroutines = 0) =>
             ~is_ready_to_fetch_prices)
    /\ [](~is_ready_to_fetch_prices =>
             /\ DOMAIN tasks = {} /\ Timers = {}
             /\ \A p \in Requesters, s \in Symbols :
                   /\ req[p][s].st \in {"none", "ready", "barrier"}
                   /\ req[p][s].exc # "TimeoutError")
    /\ [][~is_ready_to_fetch_prices' =>
             \A p \in Requesters, s \in Symbols :
                req[p][s].st = "barrier" => req'[p][s] = req[p][s]]_vars

\* a resolver made with num_coroutines = 0 has had positions registered
\* twice, and both callers are suspended on the event for both tokens
C25_Witness ==
    /\ call.op = "engine" /\ num_coroutines = 0 /\ counter = 2
    /\ \A p \in EngineRequesters, s \in Tokens : req[p][s].st = "barrier"

\* C26: the step in which a wait_for on a symbol's task times out leaves the
\* task recorded and cancelled; a cancelled task stays recorded and
\* cancelled, get_price is not called again for its symbol, no resolve_price
\* of the symbol has returned or ever returns, and a resolve_price that
\* finds the task cancelled, whether it was already awaiting it or was made
\* afterwards, can only go on to await it and then raise.
C26_TimeoutPoisonsSymbol ==
    /\ [](\A s \in DOMAIN tasks :
             tasks[s].st = "cancelled" =>
                /\ calls[s] = 1 /\ s \notin DOMAIN results
                /\ \A p \in Requesters : req[p][s].st # "returned")
    /\ [][\A s \in Symbols :
             /\ (\E p \in Requesters :
                    /\ req[p][s].st = "awaiting" /\ req'[p][s].st = "raised"
                    /\ req'[p][s].exc = "TimeoutError") =>
                   s \in DOMAIN tasks' /\ tasks'[s].st = "cancelled"
             /\ (s \in DOMAIN tasks /\ tasks[s].st = "cancelled") =>
                   /\ s \in DOMAIN tasks' /\ tasks'[s] = tasks[s]
                   /\ calls'[s] = calls[s]
                   /\ \A p \in Requesters :
                         /\ (req[p][s].st = "ready" /\ req'[p][s] # req[p][s]) =>
                               req'[p][s].st = "awaiting"
                         /\ (req[p][s].st = "awaiting" /\ req'[p][s] # req[p][s]) =>
                               /\ req'[p][s].st = "raised"
                               /\ req'[p][s].exc \in {"TimeoutError", "CancelledError"}]_vars

\* one caller's wait for a symbol timed out, and a resolve_price of the same
\* symbol made after that by the other caller has failed on the cancelled
\* task, get_price having been called once
C26_Witness ==
    \E s \in Tokens :
        /\ req[Holdings][s].st = "raised" /\ req[Holdings][s].exc = "TimeoutError"
        /\ req[Caller][s].st = "raised" /\ req[Caller][s].exc = "CancelledError"
        /\ req[Caller][s].deadline > req[Holdings][s].deadline
        /\ tasks[s].st = "cancelled" /\ calls[s] = 1

\* The symbol has a price reader, and so has every symbol its price is
\* quoted in, down to one priced by an oracle, without coming back to a
\* symbol already met.
RECURSIVE PriceResolvable(_, _)
PriceResolvable(symbol, seen) ==
    /\ symbol \notin seen
    /\ symbol \in DOMAIN price_readers
    /\ \/ price_readers[symbol] = "chainlink"
       \/ PriceResolvable(Quote(symbol), seen \cup {symbol})

\* A resolve_price of a resolvable symbol, made and not yet ended, with the
\* event set.
PendingResolvable(p, symbol) ==
    /\ req[p][symbol].st \in {"ready", "barrier", "awaiting"}
    /\ is_ready_to_fetch_prices
    /\ PriceResolvable(symbol, {})

\* A deadline has elapsed, or an eth_call of a price reader has failed.
Obstructed ==
    \/ now > 0
    \/ \E t \in DOMAIN tasks : tasks[t].exc = "NetworkError"

RECURSIVE SumReportValues(_)
SumReportValues(n) ==
    IF n = 0 THEN SumValues(report.holdings.positions, DOMAIN report.holdings.positions)
    ELSE LSNAdd(SumReportValues(n - 1),
                SumValues(report.protocols[n].positions,
                          DOMAIN report.protocols[n].positions))

\* C28: in a priced chain report that is returned, holdings.value is the sum
\* of the values of the holdings positions, total.value is that sum plus the
\* values of the positions of every protocol report, and it is also the sum
\* of the values of total.positions over its symbols: net, long and short
\* alike.
C28_ValuesAddUp ==
    (call.op = "priced" /\ call.st = "returned") =>
        /\ report.holdings.value =
              SumValues(report.holdings.positions, DOMAIN report.holdings.positions)
        /\ report.total.value = SumReportValues(NumProtocols)
        /\ report.total.value =
              SumValues(report.total.positions, DOMAIN report.total.positions)

\* a priced report was returned in which the holdings reader and a protocol
\* reader hold the same symbol, the protocol short of it, and the holdings
\* another symbol besides
C28_Witness ==
    /\ call.op = "priced" /\ call.st = "returned"
    /\ Cardinality(DOMAIN report.holdings.positions) >= 2
    /\ \E p \in Protocols : \E s \in DOMAIN report.protocols[p].positions :
          /\ s \in DOMAIN report.holdings.positions
          /\ report.protocols[p].positions[s].value.short.value # 0
    /\ report.total.value.short.value # 0
    /\ report.total.value # report.holdings.value

\* C29: X + Y gives the merged ledger and leaves X and Y as they were;
\* update_positions leaves the ledgers registered as they were; and after
\* the fold of a chain report the holdings ledger and the protocol reports'
\* ledgers are as they were, the total sharing no entry object with them.
C29_MergeLeavesInputs ==
    fn = "merge_on_heap" =>
        LET before == [x |-> inp[2], y |-> inp[3], z |-> inp[4]]
        IN  /\ out.sum = PositionsAdd(inp[2], inp[3])
            /\ out.after_sum = before
            /\ out.positions = PositionsIAdd(PositionsIAdd(EmptyDict, inp[2]), inp[3])
            /\ out.after_update = before
            /\ out.total =
                  PositionsIAdd(PositionsIAdd(PositionsAdd(EmptyDict, inp[2]), inp[3]),
                                inp[4])
            /\ out.after_fold = before
            /\ out.shared = {}

\* three ledgers that all hold A were merged, X holding B as well, which Y
\* does not: the sum X + Y keeps X's own entry for B
C29_Witness ==
    /\ fn = "merge_on_heap"
    /\ "A" \in DOMAIN inp[2] \cap DOMAIN inp[3] \cap DOMAIN inp[4]
    /\ "B" \in DOMAIN inp[2] \ DOMAIN inp[3]
    /\ out.sum["A"] # inp[2]["A"]
    /\ out.sum["B"] = inp[2]["B"]
    /\ out.after_sum.x = inp[2]

\* C30: for two distinct nodes joined by the edges, get(src, dst) returns a
\* path from src to dst along edges with the least possible number of edges;
\* for two nodes not joined, or src = dst, it returns None.
C30_ShortestPath ==
    fn = "get" =>
        LET Joined(a, b) == <<a, b>> \in inp.edges \/ <<b, a>> \in inp.edges
            Walks == UNION {[1..k -> Nodes] : k \in 2..NumNodes}
            IsPath(q) == /\ q[1] = out.src /\ q[Len(q)] = out.dst
                         /\ \A i \in 1..(Len(q) - 1) : Joined(q[i], q[i + 1])
        IN  IF out.src # out.dst /\ \E q \in Walks : IsPath(q)
            THEN /\ out.ret # None
                 /\ IsPath(out.ret)
                 /\ \A q \in Walks : IsPath(q) => Len(q) >= Len(out.ret)
            ELSE out.ret = None

==============================================================================
